---- MODULE Spec2Model ----
(***************************************************************************)
(* Model of the real-time session-synchronization layer of Dr-lingo:       *)
(* the useWebSocket hook (connection lifecycle, reconnection with          *)
(* exponential backoff, keep-alive, stale-attempt suppression), the        *)
(* useChatWebSocket hook (event routing, typing presence) and the message  *)
(* collection of TranslationChat (patches and reloads).                    *)
(*                                                                         *)
(* One action per callback of the single-threaded event loop: the three    *)
(* setTimeout callbacks, the setInterval callback, the four WebSocket      *)
(* handlers, the operations the hook returns, and the mount effect.        *)
(* Endpoints are well-formed URLs, so `new WebSocket(url)` does not throw. *)
(***************************************************************************)
EXTENDS Integers, Sequences, FiniteSets, TLC

\* ------------------------------------------------------------------ bounds
\* Ceiling on connectionIdRef in the full specification.
MaxConnId == 3
\* Ceiling on connectionIdRef in the backoff scenario specification.
MaxBackoffConnId == 12
\* Ceiling on the number of messages the server holds.
MaxServerMessages == 2
\* Ceiling on the getMessages requests in flight.
MaxLoads == 2
\* Ceiling on the sendMessage requests in flight.
MaxPosts == 1
\* Date.now() when the component mounts.
MountTime == 5000
\* How long after the mount the clock is followed, in ms.
Horizon == 6000
\* Largest advance of the clock in one step, in ms.
TickMs == 500
\* Ceiling on connectionIdRef in the chat specifications.
MaxChatConnId == 1
\* Ceiling on connectionIdRef in the typing specification.
MaxTypingConnId == 2

\* ------------------------------------------------------- program constants
DEFAULT_RECONNECT_INTERVAL == 1000
MAX_RECONNECT_INTERVAL == 30000
DEFAULT_MAX_RECONNECT_ATTEMPTS == 10
maxReconnectAttempts == DEFAULT_MAX_RECONNECT_ATTEMPTS
TYPING_DEBOUNCE_MS == 1000
TYPING_TIMEOUT_MS == 3000
\* The period of the setInterval that sweeps stale typing entries.
SWEEP_INTERVAL_MS == 1000

\* The endpoint handed to useWebSocket: "" when the chat hook is disabled.
Urls == {"", "roomA", "roomB"}
\* The rooms TranslationChat is shown for.
RoomIds == {1, 2}
\* roomId when useWebSocket is mounted by a caller of its own, without the
\* chat hook and TranslationChat.
NoRoom == 0
\* getWebSocketUrl(roomId): the endpoint of the room's chat.
GetWebSocketUrl(id) == IF id = 1 THEN "roomA" ELSE "roomB"
\* event.code of a close event.
CloseCodes == {1000, 1006, 4001, 4002, 4003}
\* event.data of a message event is text: text on which JSON.parse throws,
\* or the JSON text of a value.
Malformed == [parses |-> FALSE]
\* The callback was given no frame.
NoFrame == [none |-> TRUE]
Json(value) == [parses |-> TRUE, value |-> value]
\* JSON.parse(event.data) when it does not throw.
JsonParse(frame) == frame.value

\* A field that is not set on an object.
Undefined == "undefined"
UserIds == {1, 2}
SenderTypes == {"patient", "doctor"}
\* An id no message of the server carries.
UnknownId == MaxServerMessages + 1
\* The message ids that patch events name.
PatchIds == {1, UnknownId}

\* Server events (types/websocket).
PongEvent == [type |-> "pong", timestamp |-> 0]
MessageNewEvents ==
    {[type |-> "message.new", message_id |-> id, sender_type |-> "patient",
      original_text |-> "hello"] : id \in 1..MaxServerMessages}
MessageTranslatedEvents ==
    {[type |-> "message.translated", message_id |-> id,
      translated_text |-> "Hola", target_lang |-> "es"] : id \in PatchIds}
MessageTranscribedEvents ==
    {[type |-> "message.transcribed", message_id |-> id,
      transcription |-> "good morning", detected_language |-> "en"] : id \in PatchIds}
TTSGeneratedEvents ==
    {[type |-> "tts.generated", message_id |-> id, audio_url |-> "/media/tts.mp3"] :
        id \in PatchIds}
TranslationFailedEvents ==
    {[type |-> "translation.failed", message_id |-> 1, error |-> "translation timed out"]}
AudioProcessingFailedEvents ==
    {[type |-> "audio.processing_failed", message_id |-> 1,
      error |-> "unsupported audio format"]}
ErrorEvents == {[type |-> "error", message |-> "Invalid message format"]}
ConnectionEstablishedEvent == [type |-> "connection.established", room_id |-> 1]
\* An event whose type handleMessage has no case for.
UnknownEvents == {[type |-> "room.archived"]}
UserTypingEvents ==
    {[type |-> "user.typing", user_id |-> 1, sender_type |-> st] : st \in SenderTypes}
        \cup {[type |-> "user.typing", user_id |-> 2, sender_type |-> "doctor"]}
UserStoppedTypingEvents == {[type |-> "user.stopped_typing", user_id |-> u] : u \in UserIds}
UserDisconnectedEvents == {[type |-> "user.disconnected", user_id |-> u] : u \in UserIds}

\* The frames of the three specifications.
Frames == {Malformed, Json(PongEvent)}
MessageFrames ==
    {Malformed, Json(PongEvent)}
        \cup {Json(e) : e \in MessageNewEvents \cup MessageTranslatedEvents
                                \cup MessageTranscribedEvents \cup TTSGeneratedEvents}
        \cup {Json(e) : e \in TranslationFailedEvents \cup AudioProcessingFailedEvents
                                \cup ErrorEvents}
        \cup {Json([type |-> "user.typing", user_id |-> 1, sender_type |-> "patient"]),
              Json([type |-> "user.stopped_typing", user_id |-> 1])}
RoutingFrames ==
    MessageFrames \cup {Json(e) : e \in UnknownEvents \cup {ConnectionEstablishedEvent}}
PresenceFrames ==
    {Malformed}
        \cup {Json(e) : e \in UserTypingEvents \cup UserStoppedTypingEvents
                                \cup UserDisconnectedEvents}
\* The callbacks of UseChatWebSocketOptions.
ChatCallbacks ==
    {"onNewMessage", "onMessageTranslated", "onMessageTranscribed", "onTTSGenerated",
     "onTranslationFailed", "onAudioProcessingFailed", "onError"}
\* The sets of callbacks a caller passes in the routing specification: all of
\* them, none, and two of them.
CallbackSets == {ChatCallbacks, {}, {"onNewMessage", "onMessageTranslated"}}
\* What callers pass to send().
ClientEvents == {"typing", "stop_typing", "ping"}
WebSocketStatus == {"connecting", "connected", "reconnecting", "disconnected", "error"}
\* reconnectInterval values fed to getReconnectDelay in the delay specification.
DelayIntervals == {1, 100, 500, 1000, 1500, 7500, 30000, 40000}

VARIABLES
    status,               \* useState<WebSocketStatus>
    wsRef,                \* wsRef.current: id of the transport, 0 for null
    reconnectAttemptsRef, \* reconnectAttemptsRef.current
    reconnectTimeoutRef,  \* reconnectTimeoutRef.current: a timer id, 0 for null
    reconnectTimers,      \* pending reconnect setTimeouts: timer id -> [delay, url]
    pingIntervalRef,      \* pingIntervalRef.current: an interval id, 0 for null
    pingIntervals,        \* ids of the ping setIntervals that are running
    mountedRef,           \* mountedRef.current
    connectionIdRef,      \* connectionIdRef.current
    isConnectingRef,      \* isConnectingRef.current
    url,                  \* options.url of the latest render
    shouldReconnect,      \* options.reconnect
    reconnectInterval,    \* options.reconnectInterval
    registered,           \* the callbacks passed in useChatWebSocket's options
    roomId,               \* TranslationChat's roomId prop of the latest render
    connectTimeout,       \* the mount effect's setTimeout: [pending, url]
    settleTimeouts,       \* manualReconnect's setTimeouts: url -> number pending
    transports,           \* every WebSocket created: connection id -> record
    schedule,             \* delays of the reconnects scheduled in the current run
    userDisconnected,     \* disconnect() was called and reconnect() not since
    op,                   \* the callback that ran last and its inputs
    calls,                \* callbacksRef callbacks invoked by the last callback
    wire,                 \* frame handed to WebSocket.send by the last callback
    typingUsers,          \* useChatWebSocket: useState<TypingUser[]>
    sweepDue,             \* due time of the stale-typing setInterval, 0 if cleared
    received,             \* event.data of the frame the last callback was given
    handled,              \* useChatWebSocket callbacks invoked by the last callback
    messages,             \* TranslationChat: useState<ChatMessage[]>
    loads,                \* getMessages requests in flight: the response of each
    posts,                \* sendMessage requests in flight: [roomId, stored] of each
    server,               \* the messages the server holds: room id -> messages
    now,                  \* Date.now()
    lastTypingSentRef,    \* useChatWebSocket: lastTypingSentRef.current
    typingLog             \* what became of the typing events since the last one sent

vars == <<status, wsRef, reconnectAttemptsRef, reconnectTimeoutRef, reconnectTimers,
          pingIntervalRef, pingIntervals, mountedRef, connectionIdRef, isConnectingRef,
          url, shouldReconnect, reconnectInterval, registered, roomId, connectTimeout,
          settleTimeouts,
          transports, schedule,
          userDisconnected, op, calls, wire, typingUsers, sweepDue, received, handled,
          messages, loads, posts, server, now, lastTypingSentRef, typingLog>>

config == <<shouldReconnect, reconnectInterval, registered, roomId>>
timers == <<reconnectTimeoutRef, reconnectTimers, pingIntervalRef, pingIntervals>>
typing == <<lastTypingSentRef, typingLog>>
chat == <<typingUsers, sweepDue, messages, loads, posts, server, now, typing>>

\* useWebSocket is mounted by the chat hook of a TranslationChat.
ChatMounted == roomId # NoRoom

\* A callback that is none of the chat hook's and none of TranslationChat's.
ChatIdle == received' = NoFrame /\ handled' = <<>> /\ UNCHANGED chat

\* ----------------------------------------------------------------- helpers
Min(a, b) == IF a <= b THEN a ELSE b

NoConnectTimeout == [pending |-> FALSE, url |-> ""]

\* No typing event was handed to the transport yet.
NoTypingSent == [sentAt |-> 0, prev |-> 0, stopped |-> FALSE, dropped |-> FALSE]

Op(name, conn, code, frame, u, connect) ==
    [name |-> name, conn |-> conn, code |-> code, frame |-> frame, url |-> u,
     connect |-> connect]

\* Mutants of getReconnectDelay: the clamp is missing; the delay grows
\* linearly.
GetReconnectDelayUncapped(interval, attempts) == interval * (2 ^ attempts)

GetReconnectDelayLinear(interval, attempts) ==
    Min(interval * (attempts + 1), MAX_RECONNECT_INTERVAL)

\* Math.min(reconnectInterval * Math.pow(2, attempts), MAX_RECONNECT_INTERVAL)
GetReconnectDelay(interval, attempts) ==
    Min(interval * (2 ^ attempts), MAX_RECONNECT_INTERVAL)

\* Mutant of the close-code policy: 4003 is treated as transient.
IsTerminalCloseCodeWithout4003(code) == code = 4001 \/ code = 4002

\* The close codes after which onclose returns without reconnecting.
IsTerminalCloseCode(code) == code = 4001 \/ code = 4002 \/ code = 4003

\* Mutant of the readiness test: any handle counts as open.
IsOpenAnyHandle(ws) == ws # 0

\* wsRef.current?.readyState === WebSocket.OPEN
IsOpen(ws) == ws # 0 /\ transports[ws].rs = "OPEN"

\* WebSocket.close(code) as the transport sees it: CONNECTING and OPEN become
\* CLOSING, a closing or closed transport is left alone.
CloseTransport(tr, code) ==
    IF tr.rs \in {"CONNECTING", "OPEN"}
    THEN [tr EXCEPT !.rs = "CLOSING", !.closedWith = code]
    ELSE tr

\* transports after wsRef.current.close(code) when wsRef.current is set.
CloseHandle(code) ==
    [t \in DOMAIN transports |->
        IF t = wsRef THEN CloseTransport(transports[t], code) ELSE transports[t]]

\* clearTimers(): clearTimeout and clearInterval of the ids the two refs hold.
ClearedReconnectTimers ==
    [i \in DOMAIN reconnectTimers \ {reconnectTimeoutRef} |-> reconnectTimers[i]]

\* Mutant: the interval the ref holds is not cleared.
PingIntervalsNotCleared == pingIntervals

ClearedPingIntervals == pingIntervals \ {pingIntervalRef}

ClearTimers ==
    /\ reconnectTimers' = ClearedReconnectTimers
    /\ reconnectTimeoutRef' = 0
    /\ pingIntervals' = ClearedPingIntervals
    /\ pingIntervalRef' = 0

\* Mutant of connect(): the "already connected" return is missing.
ConnectNoopIgnoresOpen(u) ==
    \/ ~mountedRef
    \/ u = ""
    \/ isConnectingRef
    \/ (wsRef # 0 /\ transports[wsRef].rs = "CONNECTING")

\* The early returns of connect().
ConnectNoop(u) ==
    \/ ~mountedRef
    \/ u = ""
    \/ isConnectingRef
    \/ (wsRef # 0 /\ transports[wsRef].rs = "OPEN")
    \/ (wsRef # 0 /\ transports[wsRef].rs = "CONNECTING")

ConnectResult(u) == IF ConnectNoop(u) THEN "noop" ELSE "opened"

\* connect() of the render whose url is u.
Connect(u, cap) ==
    IF ConnectNoop(u)
    THEN UNCHANGED <<status, wsRef, connectionIdRef, isConnectingRef, transports>>
    ELSE /\ connectionIdRef < cap
         /\ isConnectingRef' = TRUE
         /\ connectionIdRef' = connectionIdRef + 1
         /\ status' = "connecting"
         /\ wsRef' = connectionIdRef + 1
         /\ transports' =
               [t \in DOMAIN transports \cup {connectionIdRef + 1} |->
                   IF t = connectionIdRef + 1
                   THEN [rs |-> "CONNECTING", url |-> u, opened |-> FALSE,
                         done |-> FALSE, closedWith |-> 0]
                   ELSE IF t = wsRef THEN CloseTransport(transports[t], 1005)
                   ELSE transports[t]]

\* ---------------------------------------------------------------- initial
\* The hook after its first render and mount effect, for the given options.
MountedWith(urls, reconnects, intervals, callbackSets) ==
    /\ status = "disconnected"
    /\ wsRef = 0
    /\ reconnectAttemptsRef = 0
    /\ reconnectTimeoutRef = 0
    /\ reconnectTimers = <<>>
    /\ pingIntervalRef = 0
    /\ pingIntervals = {}
    /\ mountedRef = TRUE
    /\ connectionIdRef = 0
    /\ isConnectingRef = FALSE
    /\ roomId = 1
    /\ url \in urls \cap {"", GetWebSocketUrl(roomId)}
    /\ shouldReconnect \in reconnects
    /\ reconnectInterval \in intervals
    /\ registered \in callbackSets
    /\ connectTimeout = [pending |-> TRUE, url |-> url]
    /\ settleTimeouts = [u \in Urls |-> 0]
    /\ transports = <<>>
    /\ schedule = <<>>
    /\ userDisconnected = FALSE
    /\ op = Op("mount", 0, 0, "", url, "none")
    /\ calls = {}
    /\ wire = ""
    /\ typingUsers = <<>>
    /\ sweepDue = MountTime + SWEEP_INTERVAL_MS
    /\ received = NoFrame
    /\ handled = <<>>
    /\ messages = <<>>
    /\ server = [id \in RoomIds |-> <<>>]
    /\ loads = <<server[roomId]>>
    /\ posts = <<>>
    /\ now = MountTime
    /\ lastTypingSentRef = 0
    /\ typingLog = NoTypingSent

\* The hook as TranslationChat mounts it: every callback is passed.
Mounted(urls, reconnects, intervals) ==
    MountedWith(urls, reconnects, intervals, {ChatCallbacks})

\* useWebSocket after its first render and mount effect when a caller of its
\* own mounts it with the given options: there is no chat hook, so no sweep
\* interval and no chat callbacks, and no TranslationChat, so no request for
\* the messages.
MountedHook(urls, reconnects, intervals) ==
    /\ status = "disconnected"
    /\ wsRef = 0
    /\ reconnectAttemptsRef = 0
    /\ reconnectTimeoutRef = 0
    /\ reconnectTimers = <<>>
    /\ pingIntervalRef = 0
    /\ pingIntervals = {}
    /\ mountedRef = TRUE
    /\ connectionIdRef = 0
    /\ isConnectingRef = FALSE
    /\ roomId = NoRoom
    /\ url \in urls
    /\ shouldReconnect \in reconnects
    /\ reconnectInterval \in intervals
    /\ registered = {}
    /\ connectTimeout = [pending |-> TRUE, url |-> url]
    /\ settleTimeouts = [u \in Urls |-> 0]
    /\ transports = <<>>
    /\ schedule = <<>>
    /\ userDisconnected = FALSE
    /\ op = Op("mount", 0, 0, "", url, "none")
    /\ calls = {}
    /\ wire = ""
    /\ typingUsers = <<>>
    /\ sweepDue = 0
    /\ received = NoFrame
    /\ handled = <<>>
    /\ messages = <<>>
    /\ server = [id \in RoomIds |-> <<>>]
    /\ loads = <<>>
    /\ posts = <<>>
    /\ now = MountTime
    /\ lastTypingSentRef = 0
    /\ typingLog = NoTypingSent

Init == MountedHook({"", "roomA"}, BOOLEAN, {DEFAULT_RECONNECT_INTERVAL})

\* ------------------------------------------------------------------ timers
\* The mount effect's setTimeout callback (50 ms).
ConnectTimeoutFire(cap) ==
    /\ connectTimeout.pending
    /\ connectTimeout' = NoConnectTimeout
    /\ IF mountedRef /\ connectTimeout.url # ""
       THEN /\ Connect(connectTimeout.url, cap)
            /\ op' = Op("connectTimeout", 0, 0, "", connectTimeout.url,
                        ConnectResult(connectTimeout.url))
       ELSE /\ UNCHANGED <<status, wsRef, connectionIdRef, isConnectingRef, transports>>
            /\ op' = Op("connectTimeout", 0, 0, "", connectTimeout.url, "none")
    /\ calls' = {}
    /\ wire' = ""
    /\ ChatIdle
    /\ UNCHANGED <<reconnectAttemptsRef, timers, mountedRef,
                   url, config, settleTimeouts, schedule, userDisconnected>>

\* The reconnect setTimeout callback scheduled by onclose.
ReconnectTimeoutFire(i, cap) ==
    /\ i \in DOMAIN reconnectTimers
    /\ reconnectTimers' = [j \in DOMAIN reconnectTimers \ {i} |-> reconnectTimers[j]]
    /\ IF mountedRef
       THEN /\ Connect(reconnectTimers[i].url, cap)
            /\ op' = Op("reconnectTimeout", i, 0, "", reconnectTimers[i].url,
                        ConnectResult(reconnectTimers[i].url))
       ELSE /\ UNCHANGED <<status, wsRef, connectionIdRef, isConnectingRef, transports>>
            /\ op' = Op("reconnectTimeout", i, 0, "", reconnectTimers[i].url, "none")
    /\ calls' = {}
    /\ wire' = ""
    /\ ChatIdle
    /\ UNCHANGED <<reconnectAttemptsRef, reconnectTimeoutRef, pingIntervalRef,
                   pingIntervals, mountedRef, url, config,
                   connectTimeout, settleTimeouts, schedule, userDisconnected>>

\* The setTimeout callback of manualReconnect (100 ms).
SettleTimeoutFire(u, cap) ==
    /\ settleTimeouts[u] > 0
    /\ settleTimeouts' = [settleTimeouts EXCEPT ![u] = @ - 1]
    /\ IF mountedRef
       THEN /\ Connect(u, cap)
            /\ op' = Op("settleTimeout", 0, 0, "", u, ConnectResult(u))
       ELSE /\ UNCHANGED <<status, wsRef, connectionIdRef, isConnectingRef, transports>>
            /\ op' = Op("settleTimeout", 0, 0, "", u, "none")
    /\ calls' = {}
    /\ wire' = ""
    /\ ChatIdle
    /\ UNCHANGED <<reconnectAttemptsRef, timers, mountedRef,
                   url, config, connectTimeout, schedule, userDisconnected>>

\* Mutant of the setInterval callback: the readyState test is missing.
PingIntervalFireUnguarded(i) ==
    /\ i \in pingIntervals
    /\ wire' = "ping"
    /\ op' = Op("pingInterval", i, 0, "", "", "none")
    /\ calls' = {}
    /\ ChatIdle
    /\ UNCHANGED <<status, wsRef, reconnectAttemptsRef, timers,
                   mountedRef, connectionIdRef, isConnectingRef, url,
                   config, connectTimeout, settleTimeouts, transports, schedule,
                   userDisconnected>>

\* The setInterval callback of startPingInterval.
PingIntervalFire(i) ==
    /\ i \in pingIntervals
    /\ wire' = IF IsOpen(wsRef) THEN "ping" ELSE ""
    /\ op' = Op("pingInterval", i, 0, "", "", "none")
    /\ calls' = {}
    /\ ChatIdle
    /\ UNCHANGED <<status, wsRef, reconnectAttemptsRef, timers,
                   mountedRef, connectionIdRef, isConnectingRef, url,
                   config, connectTimeout, settleTimeouts, transports, schedule,
                   userDisconnected>>

\* --------------------------------------------------------- TranslationChat
\* A message as the server stores it when it is posted.
ServerMessage(id) ==
    [id |-> id, sender_type |-> "patient", original_text |-> "hello",
     original_language |-> "en", translated_text |-> "", translated_language |-> "",
     audio_transcription |-> Undefined, tts_audio_url |-> Undefined]

\* Mutant of handleMessageTranslated: the patch also overwrites the original
\* text.
HandleMessageTranslatedOverwritesOriginal(prev, event) ==
    [i \in 1..Len(prev) |->
        IF prev[i].id = event.message_id
        THEN [prev[i] EXCEPT !.translated_text = event.translated_text,
                             !.translated_language = event.target_lang,
                             !.original_text = event.translated_text]
        ELSE prev[i]]

\* handleMessageTranslated: setMessages(prev => prev.map(...)).
HandleMessageTranslated(prev, event) ==
    [i \in 1..Len(prev) |->
        IF prev[i].id = event.message_id
        THEN [prev[i] EXCEPT !.translated_text = event.translated_text,
                             !.translated_language = event.target_lang]
        ELSE prev[i]]

\* Mutant of handleMessageTranscribed: the text that is replaced is kept as
\* the audio transcription.
HandleMessageTranscribedKeepsPrevious(prev, event) ==
    [i \in 1..Len(prev) |->
        IF prev[i].id = event.message_id
        THEN [prev[i] EXCEPT !.original_text = event.transcription,
                             !.audio_transcription = prev[i].original_text]
        ELSE prev[i]]

\* handleMessageTranscribed
HandleMessageTranscribed(prev, event) ==
    [i \in 1..Len(prev) |->
        IF prev[i].id = event.message_id
        THEN [prev[i] EXCEPT !.original_text = event.transcription,
                             !.audio_transcription = event.transcription]
        ELSE prev[i]]

\* Mutant of handleTTSGenerated: a patch for an unknown id inserts a message.
HandleTTSGeneratedUpserts(prev, event) ==
    IF \E i \in 1..Len(prev) : prev[i].id = event.message_id
    THEN [i \in 1..Len(prev) |->
             IF prev[i].id = event.message_id
             THEN [prev[i] EXCEPT !.tts_audio_url = event.audio_url]
             ELSE prev[i]]
    ELSE Append(prev, [ServerMessage(event.message_id) EXCEPT
                          !.tts_audio_url = event.audio_url])

\* handleTTSGenerated
HandleTTSGenerated(prev, event) ==
    [i \in 1..Len(prev) |->
        IF prev[i].id = event.message_id
        THEN [prev[i] EXCEPT !.tts_audio_url = event.audio_url]
        ELSE prev[i]]

\* Mutant of loadMessages(): no request is sent while one is in flight.
LoadMessagesUnlessPending(id, cap) ==
    /\ Len(loads) < cap
    /\ loads' = IF Len(loads) > 0 THEN loads ELSE Append(loads, server[id])

\* loadMessages() of the render whose roomId is id, up to its await: the
\* request is sent, and the server answers it with the messages it holds of
\* that room.
LoadMessages(id, cap) ==
    /\ Len(loads) < cap
    /\ loads' = Append(loads, server[id])

\* -------------------------------------------------------- useChatWebSocket
\* case 'user.typing', with t = Date.now().
HandleUserTyping(prev, event, t) ==
    IF \E i \in 1..Len(prev) : prev[i].userId = event.user_id
    THEN [i \in 1..Len(prev) |->
             IF prev[i].userId = event.user_id
             THEN [prev[i] EXCEPT !.timestamp = t]
             ELSE prev[i]]
    ELSE Append(prev, [userId |-> event.user_id, senderType |-> event.sender_type,
                       timestamp |-> t])

IsNotUser(u, userId) == u.userId # userId

\* case 'user.stopped_typing'
HandleUserStoppedTyping(prev, event) ==
    SelectSeq(prev, LAMBDA u : IsNotUser(u, event.user_id))

\* Mutant of case 'user.disconnected': the presence set is emptied.
HandleUserDisconnectedClearsAll(prev, event) == <<>>

\* case 'user.disconnected'
HandleUserDisconnected(prev, event) ==
    SelectSeq(prev, LAMBDA u : IsNotUser(u, event.user_id))

\* The filter of the stale-typing sweep, with t = Date.now().
SweepTypingUsers(prev, t) ==
    SelectSeq(prev, LAMBDA u : t - u.timestamp < TYPING_TIMEOUT_MS)

\* Mutant: the callback is invoked twice.
InvokedTwice(callback, arg) ==
    <<[callback |-> callback, arg |-> arg], [callback |-> callback, arg |-> arg]>>

\* A callback of the chat hook's options invoked with an argument.
Invoked(callback, arg) == <<[callback |-> callback, arg |-> arg]>>

\* Mutant of the optional call: an absent callback is called all the same.
IsRegisteredAlways(callback) == TRUE

\* callback?.(...): the caller passed this callback in the hook's options.
IsRegistered(callback) == callback \in registered

\* No callback runs, so no state of the caller changes.
Skipped == handled' = <<>> /\ UNCHANGED <<messages, loads, typingUsers>>

\* Mutant of the default case: an unhandled event is reported as an error.
IgnoredAsError ==
    /\ handled' = <<[callback |-> "onError", arg |-> "Unknown event type"]>>
    /\ UNCHANGED <<messages, loads, typingUsers>>

\* case 'connection.established', case 'pong' and default: the event is
\* logged at most.
Ignored == handled' = <<>> /\ UNCHANGED <<messages, loads, typingUsers>>

\* handleMessage(event); a registered callback is the one TranslationChat
\* passes under that name.
HandleMessage(event) ==
    /\ IF event.type = "message.new"
       THEN IF IsRegistered("onNewMessage")
            THEN /\ handled' = Invoked("onNewMessage", event)
                 /\ LoadMessages(roomId, MaxLoads)
                 /\ UNCHANGED <<messages, typingUsers>>
            ELSE Skipped
       ELSE IF event.type = "message.translated"
       THEN IF IsRegistered("onMessageTranslated")
            THEN /\ handled' = Invoked("onMessageTranslated", event)
                 /\ messages' = HandleMessageTranslated(messages, event)
                 /\ UNCHANGED <<loads, typingUsers>>
            ELSE Skipped
       ELSE IF event.type = "message.transcribed"
       THEN IF IsRegistered("onMessageTranscribed")
            THEN /\ handled' = Invoked("onMessageTranscribed", event)
                 /\ messages' = HandleMessageTranscribed(messages, event)
                 /\ UNCHANGED <<loads, typingUsers>>
            ELSE Skipped
       ELSE IF event.type = "tts.generated"
       THEN IF IsRegistered("onTTSGenerated")
            THEN /\ handled' = Invoked("onTTSGenerated", event)
                 /\ messages' = HandleTTSGenerated(messages, event)
                 /\ UNCHANGED <<loads, typingUsers>>
            ELSE Skipped
       ELSE IF event.type = "translation.failed"
       THEN IF IsRegistered("onTranslationFailed")
            THEN /\ handled' = Invoked("onTranslationFailed", event)
                 /\ UNCHANGED <<messages, loads, typingUsers>>
            ELSE Skipped
       ELSE IF event.type = "audio.processing_failed"
       THEN IF IsRegistered("onAudioProcessingFailed")
            THEN /\ handled' = Invoked("onAudioProcessingFailed", event)
                 /\ UNCHANGED <<messages, loads, typingUsers>>
            ELSE Skipped
       ELSE IF event.type = "user.typing"
       THEN /\ handled' = <<>>
            /\ typingUsers' = HandleUserTyping(typingUsers, event, now)
            /\ UNCHANGED <<messages, loads>>
       ELSE IF event.type = "user.stopped_typing"
       THEN /\ handled' = <<>>
            /\ typingUsers' = HandleUserStoppedTyping(typingUsers, event)
            /\ UNCHANGED <<messages, loads>>
       ELSE IF event.type = "user.disconnected"
       THEN /\ handled' = <<>>
            /\ typingUsers' = HandleUserDisconnected(typingUsers, event)
            /\ UNCHANGED <<messages, loads>>
       ELSE IF event.type = "error"
       THEN IF IsRegistered("onError")
            THEN /\ handled' = Invoked("onError", event.message)
                 /\ UNCHANGED <<messages, loads, typingUsers>>
            ELSE Skipped
       ELSE Ignored
    /\ UNCHANGED <<sweepDue, posts, server, now, typing>>

\* ------------------------------------------------------ transport handlers
\* A handler of connection t runs for the current attempt only.
IsCurrent(t) == mountedRef /\ connectionIdRef = t

\* Mutant of the scheduling: the counter is incremented before the delay is
\* computed.
ScheduleReconnectIncrementFirst(interval, attempts, u) ==
    [timer |-> [delay |-> GetReconnectDelay(interval, attempts + 1), url |-> u],
     attempts |-> attempts + 1]

\* Lines 300-310 of onclose: the delay is computed, then the counter is
\* incremented, then the timer is armed with connect() of the same render.
ScheduleReconnect(interval, attempts, u) ==
    [timer |-> [delay |-> GetReconnectDelay(interval, attempts), url |-> u],
     attempts |-> attempts + 1]

\* schedule after a reconnect with the given delay was armed.
Scheduled(delay) ==
    IF reconnectAttemptsRef = 0 THEN <<delay>> ELSE Append(schedule, delay)

\* Mutant of ws.onopen: the attempt counter is not reset.
OnOpenKeepsAttempts(t) ==
    /\ transports[t].rs = "CONNECTING"
    /\ op' = Op("onopen", t, 0, "", "", "none")
    /\ wire' = ""
    /\ IF ~IsCurrent(t)
       THEN /\ transports' = [transports EXCEPT ![t] =
                   CloseTransport([@ EXCEPT !.rs = "OPEN", !.opened = TRUE], 1000)]
            /\ calls' = {}
            /\ UNCHANGED <<status, reconnectAttemptsRef, pingIntervalRef, pingIntervals,
                           isConnectingRef>>
       ELSE /\ transports' = [transports EXCEPT ![t].rs = "OPEN", ![t].opened = TRUE]
            /\ isConnectingRef' = FALSE
            /\ status' = "connected"
            /\ reconnectAttemptsRef' = reconnectAttemptsRef
            /\ pingIntervals' = ClearedPingIntervals \cup {t}
            /\ pingIntervalRef' = t
            /\ calls' = {"onConnect"}
    /\ ChatIdle
    /\ UNCHANGED <<wsRef, reconnectTimeoutRef, reconnectTimers, mountedRef,
                   connectionIdRef, url, config, connectTimeout, settleTimeouts,
                   schedule, userDisconnected>>

\* ws.onopen of connection t.
OnOpen(t) ==
    /\ transports[t].rs = "CONNECTING"
    /\ op' = Op("onopen", t, 0, "", "", "none")
    /\ wire' = ""
    /\ IF ~IsCurrent(t)
       THEN /\ transports' = [transports EXCEPT ![t] =
                   CloseTransport([@ EXCEPT !.rs = "OPEN", !.opened = TRUE], 1000)]
            /\ calls' = {}
            /\ UNCHANGED <<status, reconnectAttemptsRef, pingIntervalRef, pingIntervals,
                           isConnectingRef>>
       ELSE /\ transports' = [transports EXCEPT ![t].rs = "OPEN", ![t].opened = TRUE]
            /\ isConnectingRef' = FALSE
            /\ status' = "connected"
            /\ reconnectAttemptsRef' = 0
            /\ pingIntervals' = ClearedPingIntervals \cup {t}
            /\ pingIntervalRef' = t
            /\ calls' = {"onConnect"}
    /\ ChatIdle
    /\ UNCHANGED <<wsRef, reconnectTimeoutRef, reconnectTimers, mountedRef,
                   connectionIdRef, url, config, connectTimeout, settleTimeouts,
                   schedule, userDisconnected>>

\* Mutant of ws.onmessage: a decode failure is reported to onError.
OnMessageReportsDecodeFailure(t, frame) ==
    /\ \/ transports[t].rs = "OPEN"
       \/ transports[t].rs = "CLOSING" /\ transports[t].opened
    /\ op' = Op("onmessage", t, 0, "", "", "none")
    /\ received' = frame
    /\ wire' = ""
    /\ IF IsCurrent(t) /\ frame.parses
       THEN /\ calls' = {"onMessage"}
            /\ IF ChatMounted
               THEN HandleMessage(JsonParse(frame))
               ELSE handled' = <<>> /\ UNCHANGED chat
       ELSE /\ calls' = IF IsCurrent(t) THEN {"onError"} ELSE {}
            /\ handled' = <<>>
            /\ UNCHANGED chat
    /\ UNCHANGED <<status, wsRef, reconnectAttemptsRef, timers,
                   mountedRef, connectionIdRef, isConnectingRef, url,
                   config, connectTimeout, settleTimeouts, transports, schedule,
                   userDisconnected>>

\* Mutant of ws.onmessage: a server-sent error event ends the connection.
OnMessageErrorIsFatal(t, frame) ==
    /\ \/ transports[t].rs = "OPEN"
       \/ transports[t].rs = "CLOSING" /\ transports[t].opened
    /\ op' = Op("onmessage", t, 0, "", "", "none")
    /\ received' = frame
    /\ wire' = ""
    /\ IF IsCurrent(t) /\ frame.parses
       THEN /\ calls' = {"onMessage"}
            /\ IF ChatMounted
               THEN HandleMessage(JsonParse(frame))
               ELSE handled' = <<>> /\ UNCHANGED chat
       ELSE /\ calls' = {}
            /\ handled' = <<>>
            /\ UNCHANGED chat
    /\ status' = IF IsCurrent(t) /\ frame.parses /\ JsonParse(frame).type = "error"
                 THEN "error" ELSE status
    /\ UNCHANGED <<wsRef, reconnectAttemptsRef, timers,
                   mountedRef, connectionIdRef, isConnectingRef, url,
                   config, connectTimeout, settleTimeouts, transports, schedule,
                   userDisconnected>>

\* ws.onmessage of connection t with event.data = frame. The onMessage that
\* the chat hook passes is handleMessage.
OnMessage(t, frame) ==
    /\ \/ transports[t].rs = "OPEN"
       \/ transports[t].rs = "CLOSING" /\ transports[t].opened
    /\ op' = Op("onmessage", t, 0, "", "", "none")
    /\ received' = frame
    /\ wire' = ""
    /\ IF IsCurrent(t) /\ frame.parses
       THEN /\ calls' = {"onMessage"}
            /\ IF ChatMounted
               THEN HandleMessage(JsonParse(frame))
               ELSE handled' = <<>> /\ UNCHANGED chat
       ELSE /\ calls' = {}
            /\ handled' = <<>>
            /\ UNCHANGED chat
    /\ UNCHANGED <<status, wsRef, reconnectAttemptsRef, timers,
                   mountedRef, connectionIdRef, isConnectingRef, url,
                   config, connectTimeout, settleTimeouts, transports, schedule,
                   userDisconnected>>

\* ws.onerror of connection t: the transport has failed, its close follows.
\* The onError that useChatWebSocket passes calls the chat hook's onError
\* option, if the caller passed one, with a fixed message.
OnError(t) ==
    /\ transports[t].rs \in {"CONNECTING", "OPEN", "CLOSING"}
    /\ transports' = [transports EXCEPT ![t].rs = "CLOSED"]
    /\ op' = Op("onerror", t, 0, "", "", "none")
    /\ wire' = ""
    /\ IF ~IsCurrent(t)
       THEN /\ calls' = {}
            /\ handled' = <<>>
            /\ UNCHANGED <<status, isConnectingRef>>
       ELSE /\ isConnectingRef' = FALSE
            /\ status' = "error"
            /\ calls' = {"onError"}
            /\ handled' = IF IsRegistered("onError")
                          THEN Invoked("onError", "WebSocket connection error")
                          ELSE <<>>
    /\ received' = NoFrame
    /\ UNCHANGED chat
    /\ UNCHANGED <<wsRef, reconnectAttemptsRef, timers,
                   mountedRef, connectionIdRef, url, config, connectTimeout,
                   settleTimeouts, schedule, userDisconnected>>

\* ws.onclose of connection t with event.code = code.
OnClose(t, code) ==
    /\ ~transports[t].done
    /\ transports' = [transports EXCEPT ![t].rs = "CLOSED", ![t].done = TRUE]
    /\ op' = Op("onclose", t, code, "", "", "none")
    /\ wire' = ""
    /\ isConnectingRef' = FALSE
    /\ IF connectionIdRef # t \/ ~mountedRef
       THEN /\ calls' = {}
            /\ UNCHANGED <<status, wsRef, reconnectAttemptsRef, timers, schedule>>
       ELSE /\ pingIntervals' = ClearedPingIntervals
            /\ pingIntervalRef' = 0
            /\ wsRef' = 0
            /\ IF IsTerminalCloseCode(code)
               THEN /\ status' = "error"
                    /\ calls' = {}
                    /\ reconnectTimers' = ClearedReconnectTimers
                    /\ reconnectTimeoutRef' = 0
                    /\ UNCHANGED <<reconnectAttemptsRef, schedule>>
               ELSE /\ calls' = {"onDisconnect"}
                    /\ IF mountedRef /\ shouldReconnect
                          /\ reconnectAttemptsRef < maxReconnectAttempts
                       THEN LET r == ScheduleReconnect(reconnectInterval,
                                         reconnectAttemptsRef, transports[t].url)
                            IN /\ status' = "reconnecting"
                               /\ reconnectAttemptsRef' = r.attempts
                               /\ reconnectTimers' =
                                     [i \in DOMAIN ClearedReconnectTimers \cup {t} |->
                                         IF i = t THEN r.timer
                                         ELSE ClearedReconnectTimers[i]]
                               /\ reconnectTimeoutRef' = t
                               /\ schedule' = Scheduled(r.timer.delay)
                       ELSE /\ status' = "disconnected"
                            /\ reconnectTimers' = ClearedReconnectTimers
                            /\ reconnectTimeoutRef' = 0
                            /\ UNCHANGED <<reconnectAttemptsRef, schedule>>
    /\ ChatIdle
    /\ UNCHANGED <<mountedRef, connectionIdRef, url, config, connectTimeout,
                   settleTimeouts, userDisconnected>>

\* The peer starts the closing handshake: readyState leaves OPEN before any
\* handler runs.
PeerClosing(t) ==
    /\ transports[t].rs = "OPEN"
    /\ transports' = [transports EXCEPT ![t].rs = "CLOSING"]
    /\ op' = Op("peerClosing", t, 0, "", "", "none")
    /\ wire' = ""
    /\ calls' = {}
    /\ ChatIdle
    /\ UNCHANGED <<status, wsRef, reconnectAttemptsRef, timers,
                   mountedRef, connectionIdRef, isConnectingRef, url,
                   config, connectTimeout, settleTimeouts, schedule, userDisconnected>>

\* ------------------------------------------------- operations of the hook
\* disconnect(). The function stays callable after the unmount, when React
\* drops the update of the status.
Disconnect ==
    /\ ClearTimers
    /\ isConnectingRef' = FALSE
    /\ reconnectAttemptsRef' = maxReconnectAttempts
    /\ transports' = CloseHandle(1000)
    /\ wsRef' = 0
    /\ status' = IF mountedRef THEN "disconnected" ELSE status
    /\ userDisconnected' = TRUE
    /\ op' = Op("disconnect", wsRef, 0, "", "", "none")
    /\ wire' = ""
    /\ calls' = {}
    /\ ChatIdle
    /\ UNCHANGED <<mountedRef, connectionIdRef, url, config, connectTimeout,
                   settleTimeouts, schedule>>

\* Mutant of manualReconnect(): the connection id is not incremented.
ManualReconnectKeepsId(cap) ==
    /\ connectionIdRef < cap
    /\ reconnectAttemptsRef' = 0
    /\ isConnectingRef' = FALSE
    /\ ClearTimers
    /\ transports' = CloseHandle(1000)
    /\ wsRef' = 0
    /\ settleTimeouts' = [settleTimeouts EXCEPT ![url] = @ + 1]
    /\ userDisconnected' = FALSE
    /\ op' = Op("manualReconnect", wsRef, 0, "", url, "none")
    /\ wire' = ""
    /\ calls' = {}
    /\ ChatIdle
    /\ UNCHANGED <<status, connectionIdRef, mountedRef, url, config, connectTimeout,
                   schedule>>

\* manualReconnect(), returned as reconnect. It does not test mountedRef;
\* the callback of its timer does.
ManualReconnect(cap) ==
    /\ connectionIdRef < cap
    /\ reconnectAttemptsRef' = 0
    /\ isConnectingRef' = FALSE
    /\ connectionIdRef' = connectionIdRef + 1
    /\ ClearTimers
    /\ transports' = CloseHandle(1000)
    /\ wsRef' = 0
    /\ settleTimeouts' = [settleTimeouts EXCEPT ![url] = @ + 1]
    /\ userDisconnected' = FALSE
    /\ op' = Op("manualReconnect", wsRef, 0, "", url, "none")
    /\ wire' = ""
    /\ calls' = {}
    /\ ChatIdle
    /\ UNCHANGED <<status, mountedRef, url, config, connectTimeout, schedule>>

\* send(message)
Send(message) ==
    /\ wire' = IF IsOpen(wsRef) THEN message ELSE ""
    /\ op' = Op("send", wsRef, 0, message, "", "none")
    /\ calls' = {}
    /\ ChatIdle
    /\ UNCHANGED <<status, wsRef, reconnectAttemptsRef, timers,
                   mountedRef, connectionIdRef, isConnectingRef, url,
                   config, connectTimeout, settleTimeouts, transports, schedule,
                   userDisconnected>>

\* ------------------------------------------------------- the mount effect
\* The caller renders with other props: TranslationChat with another roomId
\* or with the chat hook enabled or disabled, a caller of useWebSocket's own
\* with another url. When the url changed, the mount effect's cleanup
\* runs and the effect runs again. When roomId changed, the same commit runs
\* TranslationChat's load effect, and loadMessages() of the new render sends
\* a request, also while the url stays "".
EffectRerun(newRoomId, newUrl, cap, maxLoads) ==
    /\ mountedRef
    /\ IF ChatMounted
       THEN newRoomId \in RoomIds /\ newUrl \in {"", GetWebSocketUrl(newRoomId)}
       ELSE newRoomId = NoRoom
    /\ newRoomId # roomId \/ newUrl # url
    /\ roomId' = newRoomId
    /\ url' = newUrl
    /\ IF newUrl # url
       THEN /\ connectionIdRef < cap
            /\ ClearTimers
            /\ connectionIdRef' = connectionIdRef + 1
            /\ transports' = CloseHandle(1000)
            /\ wsRef' = 0
            /\ isConnectingRef' = FALSE
            /\ connectTimeout' = [pending |-> TRUE, url |-> newUrl]
            /\ op' = Op("effectRerun", wsRef, 0, "", newUrl, "none")
       ELSE /\ op' = Op("loadEffect", 0, 0, "", newUrl, "none")
            /\ UNCHANGED <<timers, connectionIdRef, transports, wsRef, isConnectingRef,
                           connectTimeout>>
    /\ IF newRoomId # roomId THEN LoadMessages(newRoomId, maxLoads) ELSE UNCHANGED loads
    /\ wire' = ""
    /\ calls' = {}
    /\ received' = NoFrame
    /\ handled' = <<>>
    /\ UNCHANGED <<typingUsers, sweepDue, messages, posts, server, now, typing>>
    /\ UNCHANGED <<status, reconnectAttemptsRef, mountedRef, shouldReconnect,
                   reconnectInterval, registered, settleTimeouts, schedule,
                   userDisconnected>>

\* The component unmounts: the effect's cleanup runs.
Unmount(cap) ==
    /\ mountedRef
    /\ connectionIdRef < cap
    /\ mountedRef' = FALSE
    /\ connectTimeout' = NoConnectTimeout
    /\ ClearTimers
    /\ connectionIdRef' = connectionIdRef + 1
    /\ transports' = CloseHandle(1000)
    /\ wsRef' = 0
    /\ op' = Op("unmount", wsRef, 0, "", "", "none")
    /\ wire' = ""
    /\ calls' = {}
    /\ sweepDue' = 0
    /\ received' = NoFrame
    /\ handled' = <<>>
    /\ UNCHANGED <<typingUsers, messages, loads, posts, server, now, typing>>
    /\ UNCHANGED <<status, reconnectAttemptsRef, isConnectingRef, url, config,
                   settleTimeouts, schedule, userDisconnected>>

\* ------------------------------------------------- the clock and the sweep
connection == <<status, wsRef, reconnectAttemptsRef, timers, mountedRef,
                connectionIdRef, isConnectingRef, url, config, connectTimeout,
                settleTimeouts, transports, schedule, userDisconnected>>

\* Time passes. A callback that is due runs when the event loop gets to it,
\* which may be later than its due time.
Tick ==
    /\ now - MountTime < Horizon
    /\ now' = now + TickMs
    /\ op' = Op("tick", 0, 0, "", "", "none")
    /\ calls' = {}
    /\ wire' = ""
    /\ received' = NoFrame
    /\ handled' = <<>>
    /\ UNCHANGED <<connection, typingUsers, sweepDue, messages, loads, posts, server, typing>>

\* Mutant of the sweep: it filters only while the connection is up.
SweepFireOnlyWhenConnected ==
    /\ sweepDue # 0
    /\ now >= sweepDue
    /\ typingUsers' = IF status = "connected"
                      THEN SweepTypingUsers(typingUsers, now)
                      ELSE typingUsers
    /\ sweepDue' = now + SWEEP_INTERVAL_MS
    /\ op' = Op("sweep", 0, 0, "", "", "none")
    /\ calls' = {}
    /\ wire' = ""
    /\ received' = NoFrame
    /\ handled' = <<>>
    /\ UNCHANGED <<connection, messages, loads, posts, server, now, typing>>

\* The setInterval callback of the stale-typing effect, run at Date.now() =
\* now, on time or late; the next run is due one interval after this one.
SweepFire ==
    /\ sweepDue # 0
    /\ now >= sweepDue
    /\ typingUsers' = SweepTypingUsers(typingUsers, now)
    /\ sweepDue' = now + SWEEP_INTERVAL_MS
    /\ op' = Op("sweep", 0, 0, "", "", "none")
    /\ calls' = {}
    /\ wire' = ""
    /\ received' = NoFrame
    /\ handled' = <<>>
    /\ UNCHANGED <<connection, messages, loads, posts, server, now, typing>>

\* ----------------------------------------------- the typing indicator
\* Mutant of the rate limit: the interval must be exceeded.
TypingDueStrictly(t, last) == t - last > TYPING_DEBOUNCE_MS

\* now - lastTypingSentRef.current >= TYPING_DEBOUNCE_MS
TypingDue(t, last) == t - last >= TYPING_DEBOUNCE_MS

\* sendTyping(): send() drops the event unless the transport is open.
SendTyping ==
    /\ LET due == TypingDue(now, lastTypingSentRef)
           sent == due /\ IsOpen(wsRef)
       IN /\ wire' = IF sent THEN "typing" ELSE ""
          /\ lastTypingSentRef' = IF due THEN now ELSE lastTypingSentRef
          /\ typingLog' =
                IF sent THEN [sentAt |-> now, prev |-> typingLog.sentAt,
                              stopped |-> FALSE, dropped |-> FALSE]
                ELSE [typingLog EXCEPT !.stopped = FALSE,
                                       !.dropped = typingLog.dropped \/ due]
    /\ op' = Op("sendTyping", wsRef, 0, "typing", "", "none")
    /\ calls' = {}
    /\ received' = NoFrame
    /\ handled' = <<>>
    /\ UNCHANGED <<connection, typingUsers, sweepDue, messages, loads, posts, server, now>>

\* Mutant of sendStopTyping(): the rate-limit clock is left alone.
SendStopTypingKeepsClock ==
    /\ wire' = IF IsOpen(wsRef) THEN "stop_typing" ELSE ""
    /\ lastTypingSentRef' = lastTypingSentRef
    /\ typingLog' = [typingLog EXCEPT !.stopped = TRUE]
    /\ op' = Op("sendStopTyping", wsRef, 0, "stop_typing", "", "none")
    /\ calls' = {}
    /\ received' = NoFrame
    /\ handled' = <<>>
    /\ UNCHANGED <<connection, typingUsers, sweepDue, messages, loads, posts, server, now>>

\* sendStopTyping()
SendStopTyping ==
    /\ wire' = IF IsOpen(wsRef) THEN "stop_typing" ELSE ""
    /\ lastTypingSentRef' = 0
    /\ typingLog' = [typingLog EXCEPT !.stopped = TRUE]
    /\ op' = Op("sendStopTyping", wsRef, 0, "stop_typing", "", "none")
    /\ calls' = {}
    /\ received' = NoFrame
    /\ handled' = <<>>
    /\ UNCHANGED <<connection, typingUsers, sweepDue, messages, loads, posts, server, now>>

\* ------------------------------------------------- the server and reloads
\* The room's messages as the server holds them.
Stored == server[roomId]

\* server after it stored one more message of the room.
Posted == [server EXCEPT ![roomId] = Append(@, ServerMessage(Len(@) + 1))]

\* The other participant of the room posts a message from their own client.
ServerPost ==
    /\ Len(Stored) < MaxServerMessages
    /\ server' = Posted
    /\ op' = Op("serverPost", Len(Stored) + 1, 0, "", "", "none")
    /\ calls' = {}
    /\ wire' = ""
    /\ received' = NoFrame
    /\ handled' = <<>>
    /\ UNCHANGED <<connection, typingUsers, sweepDue, messages, loads, posts, now, typing>>

\* The collection after the patch handler of the event's type has run.
Patched(prev, event) ==
    CASE event.type = "message.translated" -> HandleMessageTranslated(prev, event)
      [] event.type = "message.transcribed" -> HandleMessageTranscribed(prev, event)
      [] event.type = "tts.generated" -> HandleTTSGenerated(prev, event)

\* The server has stored the result the event announces.
Announced(event) ==
    /\ event.message_id \in 1..Len(Stored)
    /\ Patched(Stored, event) = Stored

\* A translation, transcription or speech synthesis finishes on the server:
\* the stored message gets the fields that the event will announce.
ServerPatch(event) ==
    /\ event.message_id \in 1..Len(Stored)
    /\ ~Announced(event)
    /\ server' = [server EXCEPT ![roomId] = Patched(@, event)]
    /\ op' = Op("serverPatch", event.message_id, 0, "", "", "none")
    /\ calls' = {}
    /\ wire' = ""
    /\ received' = NoFrame
    /\ handled' = <<>>
    /\ UNCHANGED <<connection, typingUsers, sweepDue, messages, loads, posts, now, typing>>

\* loads without its i-th request.
Settled(i) == [j \in 1..(Len(loads) - 1) |-> IF j < i THEN loads[j] ELSE loads[j + 1]]

\* Texts of the message form: empty, or something to send.
MessageTexts == {"", "hello"}

\* posts without its i-th request.
Answered(i) == [j \in 1..(Len(posts) - 1) |-> IF j < i THEN posts[j] ELSE posts[j + 1]]

\* handleSendMessage() up to its await of ChatService.sendMessage: with
\* nothing to send it returns, otherwise the request for the roomId of the
\* render that submits is sent. (No audio is recorded, so there is no
\* conversion before the request.)
HandleSendMessage(newMessage, cap) ==
    /\ ChatMounted
    /\ IF newMessage = ""
       THEN UNCHANGED posts
       ELSE /\ Len(posts) < cap
            /\ posts' = Append(posts, [roomId |-> roomId, stored |-> FALSE])
    /\ op' = Op("sendMessage", 0, 0, newMessage, "", "none")
    /\ calls' = {}
    /\ wire' = ""
    /\ received' = NoFrame
    /\ handled' = <<>>
    /\ UNCHANGED <<connection, typingUsers, sweepDue, messages, loads, server, now, typing>>

\* The server stores the message of the i-th sendMessage request in the
\* room the request names.
ServerStore(i) ==
    /\ i \in 1..Len(posts)
    /\ ~posts[i].stored
    /\ Len(server[posts[i].roomId]) < MaxServerMessages
    /\ server' = [server EXCEPT ![posts[i].roomId] = Append(@, ServerMessage(Len(@) + 1))]
    /\ posts' = [posts EXCEPT ![i].stored = TRUE]
    /\ op' = Op("serverStore", i, 0, "", "", "none")
    /\ calls' = {}
    /\ wire' = ""
    /\ received' = NoFrame
    /\ handled' = <<>>
    /\ UNCHANGED <<connection, typingUsers, sweepDue, messages, loads, now, typing>>

\* handleSendMessage() after its await of ChatService.sendMessage: the i-th
\* request is answered and loadMessages() of the render that submitted sends
\* its request, whether or not the component is still mounted.
SendMessageResolve(i, cap) ==
    /\ i \in 1..Len(posts)
    /\ posts[i].stored
    /\ LoadMessages(posts[i].roomId, cap)
    /\ posts' = Answered(i)
    /\ op' = Op("sendResolved", i, 0, "", "", "none")
    /\ calls' = {}
    /\ wire' = ""
    /\ received' = NoFrame
    /\ handled' = <<>>
    /\ UNCHANGED <<connection, typingUsers, sweepDue, messages, server, now, typing>>

\* handleSendMessage() after its await of ChatService.sendMessage: the i-th
\* request fails, before or after the server stored the message; the catch
\* shows the error and no reload is requested.
SendMessageReject(i) ==
    /\ i \in 1..Len(posts)
    /\ posts' = Answered(i)
    /\ op' = Op("sendRejected", i, 0, "", "", "none")
    /\ calls' = {}
    /\ wire' = ""
    /\ received' = NoFrame
    /\ handled' = <<>>
    /\ UNCHANGED <<connection, typingUsers, sweepDue, messages, loads, server, now, typing>>

\* loadMessages() after its await: the i-th request is answered and
\* setMessages(data) replaces the collection. It runs after an unmount too,
\* when React drops the update of the state of the component that is gone.
LoadMessagesResolve(i) ==
    /\ i \in 1..Len(loads)
    /\ messages' = IF mountedRef THEN loads[i] ELSE messages
    /\ loads' = Settled(i)
    /\ op' = Op("loadResolved", i, 0, "", "", "none")
    /\ calls' = {}
    /\ wire' = ""
    /\ received' = NoFrame
    /\ handled' = <<>>
    /\ UNCHANGED <<connection, typingUsers, sweepDue, posts, server, now, typing>>

\* loadMessages() after its await: the i-th request fails and the catch logs.
LoadMessagesReject(i) ==
    /\ i \in 1..Len(loads)
    /\ loads' = Settled(i)
    /\ op' = Op("loadRejected", i, 0, "", "", "none")
    /\ calls' = {}
    /\ wire' = ""
    /\ received' = NoFrame
    /\ handled' = <<>>
    /\ UNCHANGED <<connection, typingUsers, sweepDue, messages, posts, server, now, typing>>

\* ----------------------------------------------------------- specification
\* useWebSocket with a caller of its own, which may pass any url, change it,
\* call disconnect(), reconnect() and send(), and unmount.
Next ==
    \/ ConnectTimeoutFire(MaxConnId)
    \/ \E i \in DOMAIN reconnectTimers : ReconnectTimeoutFire(i, MaxConnId)
    \/ \E u \in Urls : SettleTimeoutFire(u, MaxConnId)
    \/ \E i \in pingIntervals : PingIntervalFire(i)
    \/ \E t \in DOMAIN transports : OnOpen(t)
    \/ \E t \in DOMAIN transports, frame \in Frames : OnMessage(t, frame)
    \/ \E t \in DOMAIN transports : OnError(t)
    \/ \E t \in DOMAIN transports, code \in CloseCodes : OnClose(t, code)
    \/ \E t \in DOMAIN transports : PeerClosing(t)
    \/ Disconnect
    \/ ManualReconnect(MaxConnId)
    \/ \E message \in ClientEvents : Send(message)
    \/ \E newUrl \in Urls : EffectRerun(NoRoom, newUrl, MaxConnId, MaxLoads)
    \/ Unmount(MaxConnId)

Spec == Init /\ [][Next]_vars

\* Timers that are pending fire: the event loop runs every due callback.
FairSpec ==
    /\ Spec
    /\ WF_vars(ConnectTimeoutFire(MaxConnId))
    /\ WF_vars(\E u \in Urls : SettleTimeoutFire(u, MaxConnId))
    /\ WF_vars(\E i \in DOMAIN reconnectTimers : ReconnectTimeoutFire(i, MaxConnId))

\* The backoff scenario: useWebSocket with the options the chat hook passes,
\* one endpoint, and nothing but the timers and the transport's open, error
\* and close events.
InitBackoff == MountedHook({"roomA"}, {TRUE}, {DEFAULT_RECONNECT_INTERVAL})

NextBackoff ==
    \/ ConnectTimeoutFire(MaxBackoffConnId)
    \/ \E i \in DOMAIN reconnectTimers : ReconnectTimeoutFire(i, MaxBackoffConnId)
    \/ \E t \in DOMAIN transports : OnOpen(t)
    \/ \E t \in DOMAIN transports : OnError(t)
    \/ \E t \in DOMAIN transports, code \in CloseCodes : OnClose(t, code)

SpecBackoff == InitBackoff /\ [][NextBackoff]_vars

\* The delays of consecutive reconnects for each reconnect interval: a
\* connection that never opens and fails again and again, with an error
\* event and a close event, until the attempts run out.
InitDelay == MountedHook({"roomA"}, {TRUE}, DelayIntervals)

NextDelay ==
    \/ ConnectTimeoutFire(MaxBackoffConnId)
    \/ \E i \in DOMAIN reconnectTimers : ReconnectTimeoutFire(i, MaxBackoffConnId)
    \/ \E t \in DOMAIN transports : OnError(t)
    \/ \E t \in DOMAIN transports : OnClose(t, 1006)

SpecDelay == InitDelay /\ [][NextDelay]_vars

\* The chat of one room: the options useChatWebSocket passes to useWebSocket.
InitChat == Mounted({"roomA"}, {TRUE}, {DEFAULT_RECONNECT_INTERVAL})

\* The message collection: one connection, the server's events, the room's
\* messages growing, and the reloads.
NextMessages ==
    \/ ConnectTimeoutFire(MaxChatConnId)
    \/ \E t \in DOMAIN transports : OnOpen(t)
    \/ \E t \in DOMAIN transports, frame \in MessageFrames : OnMessage(t, frame)
    \/ ServerPost
    \/ \E newMessage \in MessageTexts : HandleSendMessage(newMessage, MaxPosts)
    \/ \E i \in 1..Len(posts) : ServerStore(i)
    \/ \E i \in 1..Len(posts) : SendMessageResolve(i, MaxLoads)
    \/ \E i \in 1..Len(posts) : SendMessageReject(i)
    \/ \E i \in 1..Len(loads) : LoadMessagesResolve(i)
    \/ \E i \in 1..Len(loads) : LoadMessagesReject(i)

SpecMessages == InitChat /\ [][NextMessages]_vars

\* The presence set: one connection and its loss, the typing events of two
\* users, the clock and the sweep.
NextPresence ==
    \/ ConnectTimeoutFire(MaxChatConnId)
    \/ \E t \in DOMAIN transports : OnOpen(t)
    \/ \E t \in DOMAIN transports, frame \in PresenceFrames : OnMessage(t, frame)
    \/ \E t \in DOMAIN transports : OnClose(t, 1006)
    \/ Tick
    \/ SweepFire

SpecPresence == InitChat /\ [][NextPresence]_vars

\* Routing: callers that register all, none or some of the callbacks, and
\* every kind of frame, known or not.
InitRouting ==
    MountedWith({"roomA"}, {TRUE}, {DEFAULT_RECONNECT_INTERVAL}, CallbackSets)

NextRouting ==
    \/ ConnectTimeoutFire(MaxChatConnId)
    \/ \E t \in DOMAIN transports : OnOpen(t)
    \/ \E t \in DOMAIN transports, frame \in RoutingFrames : OnMessage(t, frame)
    \/ ServerPost
    \/ \E newMessage \in MessageTexts : HandleSendMessage(newMessage, MaxPosts)
    \/ \E i \in 1..Len(posts) : ServerStore(i)
    \/ \E i \in 1..Len(posts) : SendMessageResolve(i, MaxLoads)
    \/ \E i \in 1..Len(posts) : SendMessageReject(i)
    \/ \E i \in 1..Len(loads) : LoadMessagesResolve(i)
    \/ \E i \in 1..Len(loads) : LoadMessagesReject(i)

SpecRouting == InitRouting /\ [][NextRouting]_vars

\* Reloads and patches: the server stores a result before it announces it,
\* events arrive after the fact, and the reloads are answered in any order
\* or fail.
PatchEvents == MessageTranslatedEvents \cup MessageTranscribedEvents \cup TTSGeneratedEvents

NextReload ==
    \/ ConnectTimeoutFire(MaxChatConnId)
    \/ \E t \in DOMAIN transports : OnOpen(t)
    \/ \E t \in DOMAIN transports, e \in MessageNewEvents :
          e.message_id \in 1..Len(Stored) /\ OnMessage(t, Json(e))
    \/ \E t \in DOMAIN transports, e \in PatchEvents :
          Announced(e) /\ OnMessage(t, Json(e))
    \/ ServerPost
    \/ \E newMessage \in MessageTexts : HandleSendMessage(newMessage, MaxPosts)
    \/ \E i \in 1..Len(posts) : ServerStore(i)
    \/ \E i \in 1..Len(posts) : SendMessageResolve(i, MaxLoads)
    \/ \E i \in 1..Len(posts) : SendMessageReject(i)
    \/ \E e \in PatchEvents : ServerPatch(e)
    \/ \E i \in 1..Len(loads) : LoadMessagesResolve(i)
    \/ \E i \in 1..Len(loads) : LoadMessagesReject(i)

SpecReload == InitChat /\ [][NextReload]_vars

\* One session with one endpoint: the caller neither changes the url nor
\* unmounts; the timers, the transport's events, send(), disconnect() and
\* reconnect() run as in Next.
NextSession ==
    \/ ConnectTimeoutFire(MaxConnId)
    \/ \E i \in DOMAIN reconnectTimers : ReconnectTimeoutFire(i, MaxConnId)
    \/ \E u \in Urls : SettleTimeoutFire(u, MaxConnId)
    \/ \E i \in pingIntervals : PingIntervalFire(i)
    \/ \E t \in DOMAIN transports : OnOpen(t)
    \/ \E t \in DOMAIN transports, frame \in Frames : OnMessage(t, frame)
    \/ \E t \in DOMAIN transports : OnError(t)
    \/ \E t \in DOMAIN transports, code \in CloseCodes : OnClose(t, code)
    \/ \E t \in DOMAIN transports : PeerClosing(t)
    \/ Disconnect
    \/ ManualReconnect(MaxConnId)
    \/ \E message \in ClientEvents : Send(message)

InitSession == MountedHook({"roomA"}, {TRUE}, {DEFAULT_RECONNECT_INTERVAL})

SpecSession == InitSession /\ [][NextSession]_vars

\* TranslationChat over its rooms: the room changes, before and after it is
\* loaded, messages are posted from this client and from the other one,
\* message.new events arrive and the requests are answered in any order.
NextRooms ==
    \/ ConnectTimeoutFire(MaxConnId)
    \/ \E t \in DOMAIN transports : OnOpen(t)
    \/ \E t \in DOMAIN transports, e \in MessageNewEvents : OnMessage(t, Json(e))
    \/ \E newRoomId \in RoomIds, newUrl \in Urls :
          EffectRerun(newRoomId, newUrl, MaxConnId, MaxLoads)
    \/ Unmount(MaxConnId)
    \/ ServerPost
    \/ \E newMessage \in MessageTexts : HandleSendMessage(newMessage, MaxPosts)
    \/ \E i \in 1..Len(posts) : ServerStore(i)
    \/ \E i \in 1..Len(posts) : SendMessageResolve(i, MaxLoads)
    \/ \E i \in 1..Len(posts) : SendMessageReject(i)
    \/ \E i \in 1..Len(loads) : LoadMessagesResolve(i)
    \/ \E i \in 1..Len(loads) : LoadMessagesReject(i)

InitRooms == Mounted({"", "roomA"}, {TRUE}, {DEFAULT_RECONNECT_INTERVAL})

SpecRooms == InitRooms /\ [][NextRooms]_vars

\* The typing indicator this client sends: a connection that is lost and
\* re-established, sendTyping(), sendStopTyping() and the clock.
NextTyping ==
    \/ ConnectTimeoutFire(MaxTypingConnId)
    \/ \E i \in DOMAIN reconnectTimers : ReconnectTimeoutFire(i, MaxTypingConnId)
    \/ \E t \in DOMAIN transports : OnOpen(t)
    \/ \E t \in DOMAIN transports : OnClose(t, 1006)
    \/ SendTyping
    \/ SendStopTyping
    \/ Tick
    \/ SweepFire

SpecTyping == InitChat /\ [][NextTyping]_vars

TypeOK ==
    /\ status \in WebSocketStatus
    /\ wsRef \in 0..connectionIdRef
    /\ reconnectAttemptsRef \in 0..maxReconnectAttempts
    /\ reconnectTimeoutRef \in 0..connectionIdRef
    /\ pingIntervalRef \in 0..connectionIdRef
    /\ DOMAIN reconnectTimers \subseteq 1..connectionIdRef
    /\ pingIntervals \subseteq 1..connectionIdRef
    /\ mountedRef \in BOOLEAN
    /\ isConnectingRef \in BOOLEAN
    /\ url \in Urls
    /\ roomId \in RoomIds \cup {NoRoom}
    /\ ChatMounted => url \in {"", GetWebSocketUrl(roomId)}
    /\ DOMAIN server = RoomIds
    /\ DOMAIN transports \subseteq 1..connectionIdRef
    /\ calls \subseteq {"onConnect", "onMessage", "onError", "onDisconnect"}
    /\ wire \in ClientEvents \cup {""}
    /\ Len(messages) <= MaxServerMessages
    /\ Len(loads) <= MaxLoads
    /\ Len(posts) <= MaxPosts
    /\ Len(typingUsers) <= Cardinality(UserIds)
    /\ now \in MountTime..(MountTime + Horizon)

\* ------------------------------------------------------------------ claims
TerminalCodes == {4001, 4002, 4003}

RECURSIVE Pow2(_)
Pow2(n) == IF n = 0 THEN 1 ELSE 2 * Pow2(n - 1)

\* min(base * 2^n, cap) with the cap of 30000 ms, written out independently
\* of the model of getReconnectDelay.
CappedExponential(base, n) == Min(base * Pow2(n), 30000)

\* The step is ws.onclose of the transport of the current identity.
CurrentCloseStep == op'.name = "onclose" /\ op'.conn = connectionIdRef /\ mountedRef

\* Transports that are open or opening.
LiveTransports == {t \in DOMAIN transports : transports[t].rs \in {"OPEN", "CONNECTING"}}

\* C1: whenever the current transport closes with close code 4001, 4002 or
\* 4003, the status becomes error, no reconnect timer is pending afterwards,
\* attemptCount is not incremented and no other timer or transport is created,
\* whatever attemptCount is and also with auto-reconnect enabled.
C1_TerminalCloseNeverReconnects ==
    [][ (CurrentCloseStep /\ op'.code \in TerminalCodes)
        => /\ status' = "error"
           /\ DOMAIN reconnectTimers' = {}
           /\ reconnectAttemptsRef' = reconnectAttemptsRef
           /\ DOMAIN transports' = DOMAIN transports
           /\ UNCHANGED <<settleTimeouts, connectTimeout, connectionIdRef>> ]_vars

C1_Witness ==
    /\ op.name = "onclose" /\ op.code = 4001 /\ op.conn = connectionIdRef
    /\ mountedRef /\ shouldReconnect
    /\ reconnectAttemptsRef = 0
    /\ status = "error"

\* C2: when the current transport closes with a non-terminal code while the
\* component is mounted, auto-reconnect is enabled and attemptCount <
\* maxAttempts, then in that one step attemptCount increases by exactly 1,
\* status becomes reconnecting, and exactly one reconnect timer is pending,
\* armed with the delay computed from attemptCount before the increment and
\* with connect() for the endpoint of the closed transport.
C2_TransientCloseSchedulesOneReconnect ==
    [][ (/\ CurrentCloseStep
         /\ op'.code \notin TerminalCodes
         /\ shouldReconnect
         /\ reconnectAttemptsRef < maxReconnectAttempts)
        => /\ reconnectAttemptsRef' = reconnectAttemptsRef + 1
           /\ status' = "reconnecting"
           /\ Cardinality(DOMAIN reconnectTimers') = 1
           /\ \A i \in DOMAIN reconnectTimers' :
                 /\ reconnectTimers'[i].delay =
                       CappedExponential(reconnectInterval, reconnectAttemptsRef)
                 /\ reconnectTimers'[i].url = transports[op'.conn].url
           /\ DOMAIN transports' = DOMAIN transports
           /\ UNCHANGED <<settleTimeouts, connectTimeout, connectionIdRef>> ]_vars

C2_Witness ==
    /\ op.name = "onclose" /\ op.code = 1006
    /\ status = "reconnecting"
    /\ reconnectAttemptsRef = 2
    /\ \E i \in DOMAIN reconnectTimers : reconnectTimers[i].delay = 2000

\* C3: the n-th delay handed out by getReconnectDelay (n = 0, 1, 2, ...) equals
\* min(base * 2^n, 30000); the delays are non-decreasing in n and equal the cap
\* from the first n with base * 2^n >= 30000 on.
C3_DelayIsCappedExponential ==
    \A i \in 1..Len(schedule) :
        /\ schedule[i] = CappedExponential(reconnectInterval, i - 1)
        /\ (i > 1 => schedule[i - 1] <= schedule[i])
        /\ \A m \in 0..(i - 1) :
              reconnectInterval * Pow2(m) >= 30000 => schedule[i] = 30000

C3_Witness ==
    /\ op.name = "onclose"
    /\ reconnectInterval = 1000
    /\ Len(schedule) >= 7
    /\ schedule[5] = 16000
    /\ schedule[6] = 30000
    /\ schedule[7] = 30000

\* C4: when transient closes have used up the attempt budget (a non-terminal
\* close of the current transport with attemptCount = maxAttempts), no further
\* reconnect is scheduled and the status becomes error.
C4_ExhaustedBudgetSurfacesError ==
    [][ (/\ CurrentCloseStep
         /\ op'.code \notin TerminalCodes
         /\ reconnectAttemptsRef = maxReconnectAttempts)
        => (DOMAIN reconnectTimers' = {} /\ status' = "error") ]_vars

\* C5: on a mounted component, every open, message, error or close callback of
\* a transport whose identity differs from the current identityToken changes
\* none of status, attemptCount, the transport handle, the connecting flag or
\* the timers, and invokes none of the caller's callbacks.
C5_StaleCallbacksAreNoOps ==
    [][ (/\ op'.name \in {"onopen", "onmessage", "onerror", "onclose"}
         /\ op'.conn # connectionIdRef
         /\ mountedRef)
        => /\ UNCHANGED <<status, reconnectAttemptsRef, wsRef, isConnectingRef, timers,
                          connectTimeout, settleTimeouts>>
           /\ calls' = {} ]_vars

\* The first five attempts each ended in a close without having opened.
FirstFiveFailed ==
    \A t \in 1..5 :
        t \in DOMAIN transports /\ transports[t].done /\ ~transports[t].opened

FiveDelays == <<1000, 2000, 4000, 8000, 16000>>

\* C6: starting from a fresh connect with maxAttempts = 10 and base 1000 ms,
\* once the first five attempts have each ended in a transient close without
\* opening, exactly five reconnects have been scheduled, with delays 1000,
\* 2000, 4000, 8000, 16000, and when the sixth attempt opens the status is
\* connected.
C6_FiveTransientClosesThenConnected ==
    /\ (FirstFiveFailed /\ 6 \notin DOMAIN transports /\ status = "reconnecting")
          => /\ schedule = FiveDelays
             /\ reconnectAttemptsRef = 5
             /\ Cardinality(DOMAIN reconnectTimers) = 1
    /\ (FirstFiveFailed /\ 6 \in LiveTransports)
          => /\ schedule = FiveDelays
             /\ DOMAIN reconnectTimers = {}
             /\ (transports[6].rs = "OPEN" => status = "connected")

C6_Witness ==
    /\ FirstFiveFailed
    /\ 6 \in DOMAIN transports
    /\ transports[6].rs = "OPEN"
    /\ status = "connected"
    /\ schedule = FiveDelays

\* C7: connect() invoked while the current transport is open or opening
\* changes nothing (no new transport; identityToken, handle, status and
\* attemptCount unchanged); invoked otherwise, on a mounted component with an
\* endpoint, it mints a strictly larger identityToken, leaves the prior handle
\* neither open nor opening and opens exactly one new transport, which becomes
\* the handle.  At all times at most one transport is open or opening, and it
\* is the handle and carries the current identity.
C7_ConnectIsIdempotent ==
    /\ [](LiveTransports \subseteq ({wsRef} \cap {connectionIdRef}))
    /\ [][ op'.connect # "none"
           => IF wsRef \in LiveTransports
              THEN UNCHANGED <<connectionIdRef, wsRef, status, reconnectAttemptsRef,
                               transports>>
              ELSE (mountedRef /\ op'.url # "")
                   => /\ connectionIdRef' > connectionIdRef
                      /\ connectionIdRef' \notin DOMAIN transports
                      /\ DOMAIN transports' = DOMAIN transports \cup {connectionIdRef'}
                      /\ wsRef' = connectionIdRef'
                      /\ transports'[wsRef'].rs = "CONNECTING"
                      /\ LiveTransports' = {wsRef'}
                      /\ status' = "connecting" ]_vars

C7_Witness ==
    /\ op.connect = "noop"
    /\ op.url # ""
    /\ mountedRef
    /\ wsRef # 0
    /\ transports[wsRef].rs = "OPEN"
    /\ status = "connected"

\* C8: disconnect() sets attemptCount to maxAttempts, closes the transport with
\* code 1000 and sets the status to disconnected; from then on, until
\* forceReconnect() is invoked, no reconnect is scheduled and the status stays
\* disconnected.
C8_DisconnectStaysDisconnected ==
    [][ /\ op'.name = "disconnect"
           => /\ reconnectAttemptsRef' = maxReconnectAttempts
              /\ status' = "disconnected"
              /\ wsRef' = 0
              /\ (wsRef \in LiveTransports => transports'[wsRef].closedWith = 1000)
        /\ (userDisconnected /\ op'.name # "manualReconnect")
           => /\ status' = "disconnected"
              /\ DOMAIN reconnectTimers' = {} ]_vars

\* C9: forceReconnect() resets attemptCount to 0, increments identityToken so
\* that every transport created so far is superseded, leaves no reconnect or
\* ping timer pending, closes the handle and arms one settling timer; then,
\* unless the component unmounts or has no endpoint, a connect() eventually
\* opens a fresh transport with status connecting (or the model's ceiling on
\* identityToken is reached).
C9_ForceReconnectReconnects ==
    /\ [][ op'.name = "manualReconnect"
           => /\ reconnectAttemptsRef' = 0
              /\ connectionIdRef' = connectionIdRef + 1
              /\ \A t \in DOMAIN transports' : t < connectionIdRef'
              /\ DOMAIN reconnectTimers' = {}
              /\ pingIntervals' = {}
              /\ wsRef' = 0
              /\ LiveTransports' = {}
              /\ settleTimeouts'[url] = settleTimeouts[url] + 1 ]_vars
    /\ [](op.name = "manualReconnect"
          => <>(\/ op.connect = "opened" /\ status = "connecting"
                \/ ~mountedRef
                \/ url = ""
                \/ connectionIdRef >= MaxConnId))

C9_Witness ==
    /\ op.name = "settleTimeout"
    /\ op.connect = "opened"
    /\ status = "connecting"
    /\ reconnectAttemptsRef = 0
    /\ settleTimeouts[op.url] = 0
    /\ connectionIdRef < MaxConnId

\* C10: send(event) hands the event to the transport if and only if the handle
\* exists and is open; otherwise nothing is transmitted, then or later (every
\* transmitted frame is the argument of the send() of that step or the ping of
\* the ping timer), and send() changes none of status, attemptCount,
\* identityToken, the handle, the transports and the timers.
C10_SendOnlyWhenOpen ==
    [][ /\ op'.name = "send"
           => /\ wire' = IF wsRef # 0 /\ transports[wsRef].rs = "OPEN"
                         THEN op'.frame ELSE ""
              /\ op'.frame # ""
              /\ UNCHANGED <<status, reconnectAttemptsRef, connectionIdRef, wsRef,
                             isConnectingRef, timers, connectTimeout, settleTimeouts,
                             transports>>
        /\ wire' # ""
           => \/ op'.name = "send" /\ wire' = op'.frame
              \/ op'.name = "pingInterval" /\ wire' = "ping" ]_vars

C10_Witness ==
    /\ op.name = "send"
    /\ op.frame = "typing"
    /\ wire = ""
    /\ wsRef # 0
    /\ transports[wsRef].rs = "CONNECTING"

\* Steps that are a transport callback or a timer callback.
TransportAndTimerSteps ==
    {"onopen", "onmessage", "onerror", "onclose",
     "connectTimeout", "reconnectTimeout", "settleTimeout", "pingInterval"}

\* C11: the status error is terminal: once the status is error, no transport
\* callback and no timer callback moves it to any other status; in particular
\* the close of a transport that follows its error leaves the status error.
C11_ErrorIsTerminal ==
    [][ (status = "error" /\ op'.name \in TransportAndTimerSteps)
        => status' = "error" ]_vars

\* The step is the cleanup of the mount effect: unmount or endpoint change.
TeardownStep == op'.name \in {"unmount", "effectRerun"}

\* C12: teardown (unmount or endpoint-change cleanup) increments identityToken
\* and leaves no timer of the torn-down session pending (reconnect backoff,
\* keep-alive ping, initial-connect delay, forceReconnect settling delay), and
\* afterwards every transport that is opened targets the current endpoint.
C12_TeardownCancelsEverything ==
    [][ /\ TeardownStep
           => /\ connectionIdRef' = connectionIdRef + 1
              /\ DOMAIN reconnectTimers' = {}
              /\ pingIntervals' = {}
              /\ connectTimeout'.pending => connectTimeout'.url = url'
              /\ \A u \in Urls : settleTimeouts'[u] = 0
        /\ op'.connect = "opened" => op'.url = url ]_vars

\* The step delivers a frame to ws.onmessage of the transport of the current
\* identity.
CurrentMessageStep == op'.name = "onmessage" /\ op'.conn = connectionIdRef /\ mountedRef

\* The caller callback handleMessage invokes for an event of each type that
\* has one.
CallbackOf(type) ==
    CASE type = "message.new" -> "onNewMessage"
      [] type = "message.translated" -> "onMessageTranslated"
      [] type = "message.transcribed" -> "onMessageTranscribed"
      [] type = "tts.generated" -> "onTTSGenerated"

\* C13: an inbound frame that fails to decode as JSON is dropped: no handler
\* callback is invoked for it, and the connection status, attemptCount, the
\* transports, the timers, the message collection, the reloads in flight and
\* the presence set are unchanged; the frame delivered right after it on the
\* current transport is processed normally (its event reaches handleMessage
\* and, for a message event, the callback of its type).
C13_MalformedFrameIsDropped ==
    [][ /\ (op'.name = "onmessage" /\ ~received'.parses)
           => /\ calls' = {}
              /\ handled' = <<>>
              /\ UNCHANGED <<connection, chat>>
        /\ (/\ op.name = "onmessage" /\ ~received.parses
            /\ CurrentMessageStep /\ received'.parses)
           => /\ calls' = {"onMessage"}
              /\ received'.value.type \in {"message.new", "message.translated",
                                           "message.transcribed", "tts.generated"}
                 => /\ Len(handled') = 1
                    /\ handled'[1].callback = CallbackOf(received'.value.type)
                    /\ handled'[1].arg = received'.value
              /\ received'.value.type = "user.typing"
                 => \E i \in 1..Len(typingUsers') :
                       /\ typingUsers'[i].userId = received'.value.user_id
                       /\ typingUsers'[i].timestamp = now ]_vars

\* A malformed frame was delivered on the open current transport while the
\* collection, the reloads and the presence set were not empty.
C13_Witness ==
    /\ op.name = "onmessage"
    /\ ~received.parses
    /\ op.conn = connectionIdRef
    /\ status = "connected"
    /\ transports[op.conn].rs = "OPEN"
    /\ Len(messages) > 0
    /\ Len(loads) > 0
    /\ Len(typingUsers) > 0

\* The ids of the messages of a collection.
Ids(collection) == {collection[i].id : i \in 1..Len(collection)}

PatchTypes == {"message.translated", "message.transcribed", "tts.generated"}

\* The step delivers a decodable patch event on the current transport.
PatchStep == CurrentMessageStep /\ received'.parses /\ received'.value.type \in PatchTypes

\* C14: for every collection the client reaches and every message.translated,
\* message.transcribed or tts.generated event e, applying e twice yields the
\* same collection as applying e once.
C14_PatchesAreIdempotent ==
    /\ \A e \in MessageTranslatedEvents :
          HandleMessageTranslated(HandleMessageTranslated(messages, e), e)
             = HandleMessageTranslated(messages, e)
    /\ \A e \in MessageTranscribedEvents :
          HandleMessageTranscribed(HandleMessageTranscribed(messages, e), e)
             = HandleMessageTranscribed(messages, e)
    /\ \A e \in TTSGeneratedEvents :
          HandleTTSGenerated(HandleTTSGenerated(messages, e), e)
             = HandleTTSGenerated(messages, e)

\* A transcription event was applied to a message of a collection of two.
C14_Witness ==
    /\ op.name = "onmessage"
    /\ received.parses
    /\ received.value.type = "message.transcribed"
    /\ Len(messages) = 2
    /\ \E i \in 1..Len(messages) :
          /\ messages[i].id = received.value.message_id
          /\ messages[i].audio_transcription = received.value.transcription

\* C15: a message.translated, message.transcribed or tts.generated event whose
\* message_id matches no message in the collection leaves the collection
\* unchanged and starts no reload; it is not retained: the collection changes
\* only by a patch for an id it holds or by a reload, and a reload installs
\* exactly the response, with no earlier patch applied to it.
C15_UnknownIdPatchIsDropped ==
    [][ /\ (PatchStep /\ received'.value.message_id \notin Ids(messages))
           => /\ messages' = messages
              /\ loads' = loads
              /\ typingUsers' = typingUsers
        /\ messages' # messages
           => \/ PatchStep /\ received'.value.message_id \in Ids(messages)
              \/ op'.name = "loadResolved"
        /\ op'.name = "loadResolved" => messages' = loads[op'.conn] ]_vars

\* A patch for an id the collection of one message does not hold was
\* delivered.
C15_Witness ==
    /\ op.name = "onmessage"
    /\ op.conn = connectionIdRef
    /\ received.parses
    /\ received.value.type = "tts.generated"
    /\ received.value.message_id = UnknownId
    /\ Len(messages) = 1
    /\ messages[1].tts_audio_url = Undefined

\* C16: a message.translated event for an id present in the collection sets
\* exactly that message's translated text and translated language to the
\* event's translated_text and target_lang; every other field of that message,
\* every other message, and the order and length of the collection are
\* unchanged.
C16_TranslatedPatchesTwoFields ==
    [][ (/\ CurrentMessageStep
         /\ received'.parses
         /\ received'.value.type = "message.translated"
         /\ received'.value.message_id \in Ids(messages))
        => /\ Len(messages') = Len(messages)
           /\ \A i \in 1..Len(messages) :
                 IF messages[i].id = received'.value.message_id
                 THEN /\ messages'[i].translated_text = received'.value.translated_text
                      /\ messages'[i].translated_language = received'.value.target_lang
                      /\ messages'[i].id = messages[i].id
                      /\ messages'[i].sender_type = messages[i].sender_type
                      /\ messages'[i].original_text = messages[i].original_text
                      /\ messages'[i].original_language = messages[i].original_language
                      /\ messages'[i].audio_transcription = messages[i].audio_transcription
                      /\ messages'[i].tts_audio_url = messages[i].tts_audio_url
                 ELSE messages'[i] = messages[i] ]_vars

\* A translation was applied to the first of two messages that already
\* carried a transcription.
C16_Witness ==
    /\ op.name = "onmessage"
    /\ received.parses
    /\ received.value.type = "message.translated"
    /\ Len(messages) = 2
    /\ messages[1].id = received.value.message_id
    /\ messages[1].translated_text = "Hola"
    /\ messages[1].translated_language = "es"
    /\ messages[1].audio_transcription = "good morning"
    /\ messages[2].translated_text = ""

\* C17: each message.new event received on the current transport invokes the
\* caller's new-message callback exactly once, with the event, which starts
\* exactly one reload of the message list; the event adds no message built
\* from its payload: the collection is unchanged by the step, and an id enters
\* the collection only when the response of a reload is applied.
C17_MessageNewTriggersOneReload ==
    [][ /\ (/\ CurrentMessageStep
            /\ received'.parses
            /\ received'.value.type = "message.new")
           => /\ handled' = <<[callback |-> "onNewMessage", arg |-> received'.value]>>
              /\ Len(loads') = Len(loads) + 1
              /\ \A i \in 1..Len(loads) : loads'[i] = loads[i]
              /\ messages' = messages
        /\ ~(Ids(messages') \subseteq Ids(messages)) => op'.name = "loadResolved" ]_vars

\* A message.new event for an id the collection does not hold was delivered
\* while an earlier reload was still in flight.
C17_Witness ==
    /\ op.name = "onmessage"
    /\ op.conn = connectionIdRef
    /\ received.parses
    /\ received.value.type = "message.new"
    /\ received.value.message_id \notin Ids(messages)
    /\ Len(handled) = 1
    /\ Len(loads) = 2
    /\ Len(Stored) = 2

\* C18: across every sequence of server events and of the message reloads they
\* trigger, with responses arriving in any order and a server whose message
\* set only grows, the set of message ids in the client collection never loses
\* an id it already contained.
C18_NoMessageIdIsLost ==
    [][ Ids(messages) \subseteq Ids(messages') ]_vars

\* The entries of a presence set that belong to other users than userId.
OthersOf(presence, userId) == SelectSeq(presence, LAMBDA u : u.userId # userId)

\* C19: after a user.stopped_typing or user.disconnected event for user U is
\* processed, the presence set contains no entry for U, whatever user.typing
\* events for U preceded it; the entries of other users are unchanged.
C19_StopRemovesTheUser ==
    [][ (/\ CurrentMessageStep
         /\ received'.parses
         /\ received'.value.type \in {"user.stopped_typing", "user.disconnected"})
        => /\ \A i \in 1..Len(typingUsers') :
                 typingUsers'[i].userId # received'.value.user_id
           /\ typingUsers' = OthersOf(typingUsers, received'.value.user_id) ]_vars

\* User 1 disconnected while user 2, who started typing 500 ms or more ago,
\* stays in the presence set.
C19_Witness ==
    /\ op.name = "onmessage"
    /\ op.conn = connectionIdRef
    /\ received.parses
    /\ received.value.type = "user.disconnected"
    /\ received.value.user_id = 1
    /\ Len(typingUsers) = 1
    /\ typingUsers[1].userId = 2
    /\ now - typingUsers[1].timestamp >= 500

\* The time by which the sweep that is pending is overdue.
SweepOverdueBy == IF now > sweepDue THEN now - sweepDue ELSE 0

\* C20: a sweep removes every entry whose last user.typing event is more than
\* TIMEOUT_MS (3000 ms) old and keeps every entry refreshed less than
\* TIMEOUT_MS before it, however late the sweep runs; since sweeps run every
\* 1000 ms whatever the connection state, no entry is older than TIMEOUT_MS
\* plus one sweep interval, plus the time by which the pending sweep is
\* overdue if the event loop has not run it yet, even if no stop event
\* arrives.
C20_StaleEntriesAreSwept ==
    /\ [][ op'.name = "sweep"
           => \A i \in 1..Len(typingUsers) :
                 /\ now - typingUsers[i].timestamp > 3000
                    => \A j \in 1..Len(typingUsers') :
                          typingUsers'[j].userId # typingUsers[i].userId
                 /\ now - typingUsers[i].timestamp < 3000
                    => \E j \in 1..Len(typingUsers') :
                          typingUsers'[j] = typingUsers[i] ]_vars
    /\ [](\A i \in 1..Len(typingUsers) :
             now - typingUsers[i].timestamp < 3000 + 1000 + SweepOverdueBy)

\* After the connection was lost a sweep ran and kept the entry that was
\* refreshed 2500 ms before it.
C20_Witness ==
    /\ op.name = "sweep"
    /\ status = "reconnecting"
    /\ Len(typingUsers) = 1
    /\ typingUsers[1].userId = 1
    /\ now - typingUsers[1].timestamp = 2500

\* The step is a sendTyping() or a sendStopTyping() call.
SendTypingStep == op'.name = "sendTyping"

SendStopTypingStep == op'.name = "sendStopTyping"

\* C21: a sendTyping() call less than DEBOUNCE_MS after the last transmitted
\* typing event, with no sendStopTyping() in between, transmits nothing, so
\* two such calls transmit exactly one event; a call with the transport open
\* and at least DEBOUNCE_MS after the previous transmitted typing event,
\* every call since then having been within the interval, transmits.
C21_TypingIsRateLimited ==
    [][SendTypingStep =>
        /\ (typingLog.sentAt # 0 /\ ~typingLog.stopped
              /\ now - typingLog.sentAt < 1000) => wire' = ""
        /\ (IsOpen(wsRef) /\ typingLog.sentAt # 0 /\ ~typingLog.dropped
              /\ now - typingLog.sentAt >= 1000) => wire' = "typing"]_vars

\* A second sendTyping() within the interval was just suppressed, and one
\* exactly DEBOUNCE_MS after the previous transmission was just sent.
C21_Witness ==
    /\ op.name = "sendTyping"
    /\ IsOpen(wsRef)
    /\ wire = ""
    /\ typingLog.sentAt # 0
    /\ ~typingLog.stopped
    /\ ~typingLog.dropped
    /\ now - typingLog.sentAt = 500

\* C22 as stated: every sendStopTyping() call transmits a stop_typing event.
C22_StopTypingAlwaysTransmits ==
    [][SendStopTypingStep => wire' = "stop_typing"]_vars

\* C22, amended: a sendStopTyping() call transmits a stop_typing event
\* exactly when the transport is open, whatever the rate-limit clock says,
\* and sets the clock to 0 in either case; the sendTyping() call that follows
\* it transmits if the transport is open, however recently a typing event
\* was sent.
C22_StopTypingResetsTheClock ==
    [][/\ SendStopTypingStep =>
            /\ wire' = IF IsOpen(wsRef) THEN "stop_typing" ELSE ""
            /\ lastTypingSentRef' = 0
       /\ (SendTypingStep /\ typingLog.stopped /\ IsOpen(wsRef)) =>
            wire' = "typing"]_vars

\* A typing event was just transmitted 500 ms after the previous one: only
\* a sendStopTyping() in between makes that possible.
C22_Witness ==
    /\ op.name = "sendTyping"
    /\ wire = "typing"
    /\ typingLog.sentAt = now
    /\ typingLog.prev = now - 500

\* C30: a sendTyping() call made while the transport is open and at least
\* DEBOUNCE_MS after the last typing event that was actually transmitted
\* transmits, also when a sendTyping() call was dropped in between.
C30_DroppedTypingKeepsTheRateLimit ==
    [][(SendTypingStep /\ IsOpen(wsRef) /\ typingLog.sentAt # 0
          /\ now - typingLog.sentAt >= TYPING_DEBOUNCE_MS) =>
        wire' = "typing"]_vars

\* C23: while the transport of the current identity is open exactly one ping
\* interval runs, the one started by its onopen, and each of its periods
\* transmits one ping; an interval is started only by the onopen of the
\* transport of the current identity; a ping is transmitted only through an
\* existing, open transport handle.
C23_PingWhileOpen ==
    /\ [](IsOpen(wsRef) => pingIntervals = {wsRef} /\ pingIntervalRef = wsRef)
    /\ [][/\ (op'.name = "pingInterval" /\ IsOpen(wsRef)) => wire' = "ping"
          /\ ~(pingIntervals' \subseteq pingIntervals) =>
                /\ op'.name = "onopen"
                /\ op'.conn = connectionIdRef
                /\ op'.conn = wsRef
                /\ pingIntervals' = {op'.conn}
          /\ wire' = "ping" =>
                /\ wsRef # 0
                /\ transports[wsRef].rs = "OPEN"]_vars

\* After a reconnect, a period of the ping interval of the open transport
\* has just elapsed and transmitted a ping.
C23_Witness ==
    /\ op.name = "pingInterval"
    /\ wire = "ping"
    /\ IsOpen(wsRef)
    /\ wsRef >= 2
    /\ op.conn = wsRef

\* The step delivers a decodable event of one of the given types on the
\* open transport of the current identity.
EventStep(events) ==
    /\ CurrentMessageStep
    /\ received'.parses
    /\ received'.value \in events

\* C24: a translation.failed or audio.processing_failed event is forwarded
\* once to its own callback, onTranslationFailed or onAudioProcessingFailed,
\* with the event, which carries the message id and the error text; the
\* connection status, the transports, the timers, the attempt counter, the
\* message collection, the reloads in flight and the presence set are
\* unchanged.
C24_FailureEventsAreForwarded ==
    [][/\ EventStep(TranslationFailedEvents) =>
            handled' = <<[callback |-> "onTranslationFailed", arg |-> received'.value]>>
       /\ EventStep(AudioProcessingFailedEvents) =>
            handled' = <<[callback |-> "onAudioProcessingFailed", arg |-> received'.value]>>
       /\ EventStep(TranslationFailedEvents \cup AudioProcessingFailedEvents) =>
            /\ handled'[1].arg.message_id = 1
            /\ handled'[1].arg.error \in {"translation timed out", "unsupported audio format"}
            /\ UNCHANGED <<connection, messages, loads, typingUsers>>]_vars

\* A failure event for message 1 was just forwarded while the transport is
\* open and the collection and the presence set are not empty.
C24_Witness ==
    /\ op.name = "onmessage"
    /\ received \in {Json(e) : e \in TranslationFailedEvents}
    /\ handled # <<>>
    /\ handled[1].callback = "onTranslationFailed"
    /\ status = "connected"
    /\ IsOpen(wsRef)
    /\ messages # <<>>
    /\ typingUsers # <<>>

\* C25: a server-sent event of type error is forwarded exactly once to the
\* error callback with the event's message text, and the connection is
\* unaffected: the status stays connected, the transport stays open, the
\* attempt counter is unchanged and no reconnect is scheduled.
C25_ErrorEventIsForwarded ==
    [][EventStep(ErrorEvents) =>
        /\ handled' = <<[callback |-> "onError", arg |-> received'.value.message]>>
        /\ UNCHANGED <<status, wsRef, transports, reconnectAttemptsRef, timers,
                       connectionIdRef, schedule>>
        /\ (status = "connected" /\ IsOpen(wsRef)) =>
              (status' = "connected" /\ IsOpen(wsRef)')]_vars

\* An error event was just forwarded on the open transport.
C25_Witness ==
    /\ op.name = "onmessage"
    /\ received \in {Json(e) : e \in ErrorEvents}
    /\ handled = <<[callback |-> "onError", arg |-> "Invalid message format"]>>
    /\ status = "connected"
    /\ IsOpen(wsRef)
    /\ reconnectTimers = <<>>

\* C26: in every reachable state, if the status is connected then wsRef holds
\* the transport of the current connection id and that transport is open; a
\* transport whose close handshake has begun and whose close event has not
\* been delivered yet counts as open here.
C26_ConnectedHasOpenTransport ==
    status = "connected" =>
        /\ wsRef # 0
        /\ wsRef = connectionIdRef
        /\ transports[wsRef].rs \in {"OPEN", "CLOSING"}

\* The step applies a patch event for the message with this id.
PatchStepFor(id) == PatchStep /\ received'.value.message_id = id

\* C27: a field of a message that a message.translated, message.transcribed
\* or tts.generated patch has set keeps its value in every step that is not
\* a later patch event for the same message, as long as the message is in
\* the collection; in particular in the step that completes a reload.
C27_PatchedFieldsAreKept ==
    [][\A i \in DOMAIN messages : \A j \in DOMAIN messages' :
          (messages'[j].id = messages[i].id /\ ~PatchStepFor(messages[i].id)) =>
            /\ messages[i].translated_text # "" =>
                  /\ messages'[j].translated_text = messages[i].translated_text
                  /\ messages'[j].translated_language = messages[i].translated_language
            /\ messages[i].audio_transcription # Undefined =>
                  /\ messages'[j].audio_transcription = messages[i].audio_transcription
                  /\ messages'[j].original_text = messages[i].original_text
            /\ messages[i].tts_audio_url # Undefined =>
                  messages'[j].tts_audio_url = messages[i].tts_audio_url]_vars

\* C28: after disconnect() and until reconnect() is invoked, no step opens a
\* transport, also when a connect timer was pending at the disconnect().
C28_NoTransportAfterDisconnect ==
    [][userDisconnected => /\ op'.connect # "opened"
                           /\ DOMAIN transports' = DOMAIN transports]_vars

\* C29: while the endpoint is empty no step creates a transport, and every
\* transport a step creates targets the endpoint of that moment, whatever
\* happened before the endpoint changed.
C29_TransportsTargetTheEndpoint ==
    [][/\ url = "" => DOMAIN transports' = DOMAIN transports
       /\ \A t \in DOMAIN transports' \ DOMAIN transports :
             transports'[t].url = url]_vars

\* A timer whose callback calls connect() is pending: the reconnect backoff,
\* the mount effect's initial-connect delay or a settling delay.
ScheduledConnectPending ==
    \/ DOMAIN reconnectTimers # {}
    \/ connectTimeout.pending
    \/ \E u \in Urls : settleTimeouts[u] > 0

\* C31: in every reachable state of a mounted hook in which the status is
\* reconnecting, a scheduled connect() is pending.
C31_ReconnectingHasPendingConnect ==
    (mountedRef /\ status = "reconnecting") => ScheduledConnectPending

\* C32: presence entries are identified by userId together with senderType:
\* the set never holds two entries with the same pair, and after a
\* user.typing event it holds an entry with the event's userId and
\* senderType whose timestamp is the time of the event.
C32_PresenceKeyedByUserAndSender ==
    /\ [](\A i, j \in DOMAIN typingUsers :
            (typingUsers[i].userId = typingUsers[j].userId
               /\ typingUsers[i].senderType = typingUsers[j].senderType) => i = j)
    /\ [][EventStep(UserTypingEvents) =>
            \E i \in DOMAIN typingUsers' :
                /\ typingUsers'[i].userId = received'.value.user_id
                /\ typingUsers'[i].senderType = received'.value.sender_type
                /\ typingUsers'[i].timestamp = now]_vars

\* C33: a message.transcribed event for an id in the collection changes only
\* that message's audio_transcription, and a tts.generated event only that
\* message's tts_audio_url; every other field of the message and every other
\* message are unchanged.
C33_PatchTouchesOnlyItsField ==
    [][/\ EventStep(MessageTranscribedEvents) =>
            messages' = [i \in DOMAIN messages |->
                IF messages[i].id = received'.value.message_id
                THEN [messages[i] EXCEPT
                        !.audio_transcription = received'.value.transcription]
                ELSE messages[i]]
       /\ EventStep(TTSGeneratedEvents) =>
            messages' = [i \in DOMAIN messages |->
                IF messages[i].id = received'.value.message_id
                THEN [messages[i] EXCEPT !.tts_audio_url = received'.value.audio_url]
                ELSE messages[i]]]_vars

\* The events handleMessage forwards to a callback of their own, and that
\* callback.
RoutedEvents ==
    MessageNewEvents \cup MessageTranslatedEvents \cup MessageTranscribedEvents
        \cup TTSGeneratedEvents \cup TranslationFailedEvents
        \cup AudioProcessingFailedEvents

CallbackFor(type) ==
    CASE type = "message.new" -> "onNewMessage"
      [] type = "message.translated" -> "onMessageTranslated"
      [] type = "message.transcribed" -> "onMessageTranscribed"
      [] type = "tts.generated" -> "onTTSGenerated"
      [] type = "translation.failed" -> "onTranslationFailed"
      [] type = "audio.processing_failed" -> "onAudioProcessingFailed"

\* C34: a decoded message.new, message.translated, message.transcribed,
\* tts.generated, translation.failed or audio.processing_failed event on the
\* current transport invokes the callback of its own type once, with the
\* event as it was decoded, and no other callback; if that callback is not
\* registered, nothing is invoked and the connection, the collection, the
\* reloads in flight and the presence set are unchanged.
C34_EventsGoToTheirOwnCallback ==
    [][EventStep(RoutedEvents) =>
        IF CallbackFor(received'.value.type) \in registered
        THEN handled' = <<[callback |-> CallbackFor(received'.value.type),
                           arg |-> received'.value]>>
        ELSE /\ handled' = <<>>
             /\ UNCHANGED <<connection, messages, loads, typingUsers>>]_vars

\* A caller that registered two callbacks only has just been handed a
\* message.translated event for a message of its collection.
C34_Witness ==
    /\ op.name = "onmessage"
    /\ registered = {"onNewMessage", "onMessageTranslated"}
    /\ received \in {Json(e) : e \in MessageTranslatedEvents}
    /\ handled = <<[callback |-> "onMessageTranslated", arg |-> received.value]>>
    /\ \E i \in DOMAIN messages : messages[i].translated_text = "Hola"

\* C35: a decoded event of an unrecognized type, and a pong event, invoke no
\* callback of the caller and change neither the connection (status,
\* transport, timers) nor the collection, the reloads in flight or the
\* presence set.
C35_UnknownAndPongAreIgnored ==
    [][EventStep(UnknownEvents \cup {PongEvent}) =>
        /\ handled' = <<>>
        /\ UNCHANGED <<connection, messages, loads, typingUsers>>
        /\ (status = "connected" /\ IsOpen(wsRef)) =>
              (status' = "connected" /\ IsOpen(wsRef)')]_vars

\* An event of an unknown type has just been received on the open transport
\* by a caller that registered every callback and holds a message.
C35_Witness ==
    /\ op.name = "onmessage"
    /\ received \in {Json(e) : e \in UnknownEvents}
    /\ registered = ChatCallbacks
    /\ handled = <<>>
    /\ status = "connected"
    /\ IsOpen(wsRef)
    /\ messages # <<>>

\* The step is a timer callback that invokes connect() of a render without
\* endpoint, or after the component was unmounted.
ConnectWithoutEndpointStep ==
    /\ op'.name \in {"connectTimeout", "reconnectTimeout", "settleTimeout"}
    /\ op'.connect = "noop"
    /\ op'.url = "" \/ ~mountedRef

\* C36: connect() invoked with no endpoint, or after unmount, creates no
\* transport, mints no connection id, invokes no callback of the caller, and
\* the status is disconnected afterwards.
C36_ConnectWithoutEndpointStaysDisconnected ==
    [][ConnectWithoutEndpointStep =>
        /\ transports' = transports
        /\ connectionIdRef' = connectionIdRef
        /\ calls' = {}
        /\ status' = "disconnected"]_vars

\* C37: every open of the transport of the current identity and every
\* reconnect() set attemptCount to 0, and no other step lowers it; so a close
\* that ends a period of being connected schedules its reconnect with the
\* base delay.
C37_AttemptCountResets ==
    [][/\ (op'.name = "onopen" /\ op'.conn = connectionIdRef /\ mountedRef) =>
            reconnectAttemptsRef' = 0
       /\ op'.name = "manualReconnect" => reconnectAttemptsRef' = 0
       /\ reconnectAttemptsRef' < reconnectAttemptsRef =>
            /\ reconnectAttemptsRef' = 0
            /\ \/ op'.name = "onopen" /\ op'.conn = connectionIdRef /\ mountedRef
               \/ op'.name = "manualReconnect"
       /\ (CurrentCloseStep /\ status = "connected"
             /\ DOMAIN reconnectTimers' # {}) =>
            /\ reconnectAttemptsRef' = 1
            /\ \A i \in DOMAIN reconnectTimers' :
                  reconnectTimers'[i].delay = reconnectInterval]_vars

\* The transport of a reconnect has just opened: the counter is back at 0
\* after a reconnect had been scheduled.
C37_Witness ==
    /\ op.name = "onopen"
    /\ op.conn = connectionIdRef
    /\ status = "connected"
    /\ reconnectAttemptsRef = 0
    /\ schedule # <<>>

\* C38: in every reachable state 0 <= attemptCount <= maxAttempts, at most
\* one reconnect timer and at most one ping interval are pending, and no step
\* decreases identityToken.
C38_CountersAndTimersAreBounded ==
    /\ [](/\ reconnectAttemptsRef >= 0
          /\ reconnectAttemptsRef <= maxReconnectAttempts
          /\ Cardinality(DOMAIN reconnectTimers) <= 1
          /\ Cardinality(pingIntervals) <= 1)
    /\ [][connectionIdRef' >= connectionIdRef]_vars

\* The current transport has just closed with the counter at the ceiling
\* and auto-reconnect enabled: the counter stays there and no timer is armed.
C38_Witness ==
    /\ op.name = "onclose"
    /\ op.conn = connectionIdRef
    /\ op.code = 1006
    /\ mountedRef
    /\ shouldReconnect
    /\ reconnectAttemptsRef = maxReconnectAttempts
    /\ DOMAIN reconnectTimers = {}
    /\ connectionIdRef >= 1
====
